---- MODULE Spec2Model ----
(***************************************************************************)
(* Bulk downloader (jsonformatter/json.go) and match scanner               *)
(* (pipeline/billingCode.go and the gzip streaming scanner).               *)
(*                                                                         *)
(* Text is modelled as a sequence of tokens: a file name, an error message *)
(* and a URL are tuples of strings, and concatenation is \o.               *)
(***************************************************************************)
EXTENDS Integers, Sequences, FiniteSets, TLC

\* ------------------------------------------------------------------ bounds
MaxTasks == 2
MaxConcurrency == 2
MaxFaults == 1
MaxFaultyTasks == 1
MaxFiles == 3
MaxRuns == 2
MaxRunFiles == 1
MaxScanFiles == 1
MaxWorkers == 2
MaxReads == 3
MaxChunk == 2
MaxAttempt == 6
MaxStatus == 600
MaxExisting == 2
MaxNew == 2
MaxGzipFiles == 2

\* ------------------------------------------------------- program constants
MaxRetries == 3
StatusOK == 200
Second == 100

VARIABLES
    variant,          \* which of the three downloader programs runs
    urls,             \* the URL list handed to downloadFiles
    concurrency,      \* capacity of the semaphore channel
    existingFileMap,  \* names found in the download directory at start
    disk,             \* download directory: name -> state of the file
    semaphore,        \* number of slots held in the semaphore channel
    wg,               \* sync.WaitGroup counter
    next,             \* main's loop index over urls (next goroutine to start)
    mainPc,           \* position of downloadFiles itself
    arg,              \* (index, url) parameters each goroutine was started with
    pc,               \* position of each download goroutine
    attempt,          \* loop variable of the retry loop, per goroutine
    result,           \* downloadFile's local result, per goroutine
    fd,               \* state of the destination file a goroutine holds open
    results,          \* the results slice
    slotWriters,      \* history: goroutines that assigned results[i], in order
    requests,         \* history: HTTP requests issued, per goroutine
    sleeps,           \* history: backoff sleeps taken, per goroutine
    fileOps,          \* history: create/write/remove calls made, per goroutine
    lastOutcome,      \* history: what the latest attempt of a goroutine met
    progressChan,     \* buffered progress channel: number of queued updates
    progressClosed,   \* close(progressChan) has run
    completed,        \* the progress goroutine's counter
    progressPc,       \* position of the progress goroutine
    faultBudget,      \* failures the environment may inject in this run
    faults,           \* failures injected so far (failed GETs, creates, copies)
    scanVariant,      \* which scanner program runs: plain JSON files or gzip files
    numWorkers,       \* size of the worker pool
    dirFiles,         \* the files in the source directory
    ledgerDisk,       \* processed_files.json: the names it lists
    processedFiles,   \* main's in-memory map of processed names
    filesToProcess,   \* main's list of files to scan
    scanPc,           \* position of the scanner's main
    nextJob,          \* index of the next file main sends on jobs
    jobs,             \* the jobs channel
    jobsClosed,       \* close(jobs) has run
    resultsChan,      \* the results channel
    collected,        \* results main has received
    totalNewRecords,  \* main's running total
    mutexHolder,      \* worker holding writerMutex, 0 when it is free
    wpc,              \* position of each worker
    wfile,            \* file a worker is on
    wmode,            \* how the scan reads the file: array, object, or not begun
    wpos,             \* elements of the file the decoder has consumed
    wfound,           \* the scan's match count
    werr,             \* the scan's error, "nil" when none
    buf,              \* records held in the bufio.Writer
    out,              \* records in the output file, in order
    wread,            \* bytes of its file a worker's reader has consumed before the decoder starts
    run,              \* number of the scan run under way
    ledgerAtStart,    \* history: the ledger main loaded at the start of the run
    received,         \* history: names whose result main has received in the run
    saves,            \* history: writes of the ledger file made in the run
    lastRun,          \* history: how the previous run ended and what it claimed
    gzipFile,         \* the compressed input robustDecompress is given
    dpc,              \* position of robustDecompress
    dreads,           \* calls of gzipReader.Read made so far
    dn,               \* n of the latest Read
    derr,             \* err of the latest Read
    writeErr,         \* writeErr of the latest output.Write
    totalBytes,       \* robustDecompress's byte counter
    outputFile,       \* the output file: its bytes, NoOutput when it does not exist
    dret,             \* what robustDecompress returned, "none" while it runs
    call,             \* a call of one of the retry functions: the function and its arguments
    ret,              \* what the call returned, once it has
    arrayFile,        \* the JSON-array match file appendToFile works on
    priorFile,        \* history: that file as it was when appendToFile was called
    newRecords,       \* appendToFile's newRecords argument
    existingRecords,  \* appendToFile's existingRecords
    apc,              \* position of appendToFile
    aret,             \* what appendToFile returned, "none" while it runs
    gzipFiles,        \* the decompression driver's list of files
    di,               \* index of the file the driver's loop is on
    successCount,     \* the driver's counter of complete and valid files
    errorCount,       \* the driver's counter of failed files
    partialCount      \* the driver's counter of partial or invalid files

fetchVars == <<variant, urls, concurrency, existingFileMap, disk, semaphore, wg,
               next, mainPc, arg, pc, attempt, result, fd, results, slotWriters,
               requests, sleeps, fileOps, lastOutcome, progressChan,
               progressClosed, completed, progressPc, faultBudget, faults>>

scanVars == <<scanVariant, numWorkers, dirFiles, ledgerDisk, processedFiles,
              filesToProcess, scanPc, nextJob, jobs, jobsClosed, resultsChan, collected,
              totalNewRecords, mutexHolder, wpc, wfile, wmode, wpos, wfound, werr, buf, out,
              wread, run, ledgerAtStart, received, saves, lastRun>>

decompVars == <<gzipFile, dpc, dreads, dn, derr, writeErr, totalBytes, outputFile, dret>>

callVars == <<call, ret>>

sinkVars == <<arrayFile, priorFile, newRecords, existingRecords, apc, aret>>

driverVars == <<gzipFiles, di, successCount, errorCount, partialCount>>

toolVars == <<decompVars, callVars, sinkVars, driverVars>>

vars == <<fetchVars, scanVars, toolVars>>

\* ------------------------------------------------------------------- text
\* strings.Contains on token sequences: sub occurs contiguously in s.
Contains(s, sub) ==
    \E i \in 0..(Len(s) - Len(sub)) :
        \A j \in 1..Len(sub) : s[i + j] = sub[j]

LowerToken(t) ==
    CASE t = "Timeout" -> "timeout"
      [] t = "Connection" -> "connection"
      [] OTHER -> t

\* strings.ToLower
ToLower(s) == [i \in 1..Len(s) |-> LowerToken(s[i])]

\* fmt.Errorf("<prefix>: %v", err)
Errorf(prefix, err) == prefix \o err

NoError == <<>>

\* strings.ReplaceAll(s, old, new) for a one-token old
ReplaceAll(s, old, new) == [i \in 1..Len(s) |-> IF s[i] = old THEN new ELSE s[i]]

\* strings.Split(s, "/"): the parts between the separators, empty parts kept
RECURSIVE Split(_, _)
Split(s, sep) ==
    IF \A i \in 1..Len(s) : s[i] # sep
    THEN <<s>>
    ELSE LET k == CHOOSE i \in 1..Len(s) :
                      s[i] = sep /\ \A j \in 1..(i - 1) : s[j] # sep
         IN <<SubSeq(s, 1, k - 1)>> \o Split(SubSeq(s, k + 1, Len(s)), sep)

\* filepath.Join(dir, name) for a name without separators
Join(dir, name) ==
    CASE name = <<".">> -> dir
      [] name = <<"..">> -> <<".">>
      [] OTHER -> dir \o <<"/">> \o name

DownloadDir == <<"downloads">>

\* ------------------------------------------------------------ the inputs
\* The URL lines a url file can hold. parseOK is url.Parse's verdict, path is
\* parsedURL.Path, planID and planName are the URLInfo fields of the second
\* downloader (empty when the catalogue gave none).
URLData ==
    [u1 |-> [parseOK |-> TRUE, host |-> "h1", path |-> <<"/", "d", "/", "a.gz">>,
             planID |-> <<>>, planName |-> <<>>],
     u2 |-> [parseOK |-> TRUE, host |-> "h2", path |-> <<"/", "a.gz">>,
             planID |-> <<"p7">>, planName |-> <<>>],
     u3 |-> [parseOK |-> TRUE, host |-> "h1", path |-> <<"/", "timeout", "/">>,
             planID |-> <<"p7">>, planName |-> <<"Plan", " ", "A", "/", "B">>],
     u4 |-> [parseOK |-> FALSE, host |-> "", path |-> <<>>,
             planID |-> <<>>, planName |-> <<>>]]

URLIds == {"u1", "u2", "u3", "u4"}

\* The text of a URL as it appears inside a transport error.
URLText(u) == <<URLData[u].host>> \o URLData[u].path

Variants == {"retry", "planinfo", "simple"}

\* What one HTTP GET can meet: a transport error with its cause, or a response.
CauseTimeout == <<"Client.", "Timeout", "exceeded">>
CauseTLS == <<"x509:", "unknown", "authority">>

NoOutcome == [kind |-> "none", cause |-> <<>>, status |-> 0]
TransportError(c) == [kind |-> "err", cause |-> c, status |-> 0]
Response(s) == [kind |-> "resp", cause |-> <<>>, status |-> s]

Outcomes ==
    {TransportError(CauseTimeout), TransportError(CauseTLS),
     Response(200), Response(503), Response(404)}

\* Errors os.Create and io.Copy can return.
FileErrors == {<<"permission", "denied">>, <<"read:", "i/o", "timeout">>}

\* (*url.Error).Error(): Op, URL and the cause
TransportErrorText(u, cause) == <<"Get">> \o URLText(u) \o <<":">> \o cause

StatusText(code) ==
    CASE code = 200 -> "200" [] code = 404 -> "404" [] code = 429 -> "429"
      [] code = 500 -> "500" [] code = 502 -> "502" [] code = 503 -> "503"
      [] code = 504 -> "504" [] OTHER -> "other"

\* ------------------------------------------------------- RetryClassifier
retryableErrors ==
    {<<"timeout">>, <<"connection", "reset">>, <<"connection", "refused">>,
     <<"temporary", "failure">>, <<"no", "route", "to", "host">>,
     <<"network", "is", "unreachable">>}

isRetryableError(err) ==
    /\ err # NoError
    /\ \E retryable \in retryableErrors : Contains(ToLower(err), retryable)

retryableStatusCodesNoGatewayTimeout == {429, 500, 502, 503}

\* the retryableStatusCodes slice
retryableStatusCodes == {429, 500, 502, 503, 504}

isRetryableHTTPStatus(statusCode) == statusCode \in retryableStatusCodes

\* ---------------------------------------------------------- downloadFile
\* The last path segment, "unknown_file" when it is empty.
Filename(u) ==
    LET pathParts == Split(URLData[u].path, "/")
        filename == pathParts[Len(pathParts)]
    IN IF filename = <<>> THEN <<"unknown_file">> ELSE filename

cleanPlanName(u) ==
    ReplaceAll(ReplaceAll(ReplaceAll(URLData[u].planName, " ", "_"), "/", "_"), "\\", "_")

\* descriptiveName of the second downloader
DescriptiveName(u) ==
    IF URLData[u].planName # <<>> THEN cleanPlanName(u) \o <<"_">> \o Filename(u)
    ELSE IF URLData[u].planID # <<>> THEN URLData[u].planID \o <<"_">> \o Filename(u)
    ELSE Filename(u)

\* The name looked up in existingFileMap and joined to the directory.
DestName(v, u) == IF v = "planinfo" THEN DescriptiveName(u) ELSE Filename(u)

FilePath(v, u) == Join(DownloadDir, DestName(v, u))

ZeroResult == [URL |-> "", Success |-> FALSE, Error |-> NoError, FilePath |-> <<>>, Retries |-> 0]

buildExistingFileMapEmpty(d) == {}

\* buildExistingFileMap: the names of the entries of the download directory
buildExistingFileMap(d) == {n \in DOMAIN d : d[n] # "absent"}

\* Every destination name the inputs can give.
AllNames == {DestName(v, u) : v \in Variants, u \in {x \in URLIds : URLData[x].parseOK}}

Tasks == 1..Len(urls)

total == Len(urls)

ProgressCapacityOneShort == total - 1

\* progressChan := make(chan int, total)
ProgressCapacity == total

InputLists(maxLen) == UNION {[1..n -> URLIds] : n \in 1..maxLen}

\* The environment may make an operation fail while the budget lasts.
MayFail == faults < faultBudget

FetchInit(maxLen, budget) ==
    /\ variant \in Variants
    /\ urls \in InputLists(maxLen)
    /\ faultBudget = budget
    /\ faults = 0
    /\ concurrency \in 1..MaxConcurrency
    /\ \E present \in SUBSET {DestName(variant, urls[i]) :
                                i \in {j \in 1..Len(urls) : URLData[urls[j]].parseOK}} :
           disk = [n \in AllNames |-> IF n \in present THEN "full" ELSE "absent"]
    /\ existingFileMap = buildExistingFileMap(disk)
    /\ semaphore = 0
    /\ wg = 0
    /\ next = 1
    /\ mainPc = "loop"
    /\ arg = [g \in Tasks |-> [index |-> 0, url |-> ""]]
    /\ pc = [g \in Tasks |-> "unstarted"]
    /\ attempt = [g \in Tasks |-> 0]
    /\ result = [g \in Tasks |-> ZeroResult]
    /\ fd = [g \in Tasks |-> "none"]
    /\ results = [i \in Tasks |-> ZeroResult]
    /\ slotWriters = [i \in Tasks |-> <<>>]
    /\ requests = [g \in Tasks |-> 0]
    /\ sleeps = [g \in Tasks |-> 0]
    /\ fileOps = [g \in Tasks |-> 0]
    /\ lastOutcome = [g \in Tasks |-> NoOutcome]
    /\ progressChan = 0
    /\ progressClosed = FALSE
    /\ completed = 0
    /\ progressPc = "run"

\* for i, urlString := range urls { wg.Add(1); go func(index, url) {...}(i, urlString) }
Spawn ==
    /\ mainPc = "loop"
    /\ next <= Len(urls)
    /\ wg' = wg + 1
    /\ arg' = [arg EXCEPT ![next] = [index |-> next, url |-> urls[next]]]
    /\ pc' = [pc EXCEPT ![next] = "acquire"]
    /\ next' = next + 1
    /\ UNCHANGED <<scanVars, toolVars>>
    /\ UNCHANGED <<faultBudget, faults, variant, urls, concurrency, existingFileMap, disk, semaphore, mainPc,
                   attempt, result, fd, results, slotWriters, requests, sleeps, fileOps,
                   lastOutcome, progressChan, progressClosed, completed, progressPc>>

SlotFreeOffByOne == semaphore <= concurrency

\* A send on the semaphore channel (capacity concurrency) can proceed.
SlotFree == semaphore < concurrency

\* semaphore <- struct{}{}: blocks while the channel is full
Acquire(g) ==
    /\ pc[g] = "acquire"
    /\ SlotFree
    /\ semaphore' = semaphore + 1
    /\ pc' = [pc EXCEPT ![g] = "call"]
    /\ UNCHANGED <<scanVars, toolVars>>
    /\ UNCHANGED <<faultBudget, faults, variant, urls, concurrency, existingFileMap, disk, wg, next, mainPc, arg,
                   attempt, result, fd, results, slotWriters, requests, sleeps, fileOps,
                   lastOutcome, progressChan, progressClosed, completed, progressPc>>

AlreadyPresentNever(g) == FALSE

\* existingFileMap[filename]
AlreadyPresent(g) == DestName(variant, arg[g].url) \in existingFileMap

\* downloadFile up to the retry loop: parse the URL, name the file, look it up
DownloadFileBegin(g) ==
    LET u == arg[g].url
        r == [ZeroResult EXCEPT !.URL = u]
    IN /\ pc[g] = "call"
       /\ IF ~URLData[u].parseOK
          THEN /\ result' = [result EXCEPT ![g] =
                     [r EXCEPT !.Error = Errorf(<<"invalid", "URL:">>, <<"parse", "error">>)]]
               /\ pc' = [pc EXCEPT ![g] = "store"]
          ELSE IF AlreadyPresent(g)
          THEN /\ result' = [result EXCEPT ![g] =
                     [r EXCEPT !.Success = TRUE, !.FilePath = FilePath(variant, u)]]
               /\ pc' = [pc EXCEPT ![g] = "store"]
          ELSE /\ result' = [result EXCEPT ![g] = r]
               /\ pc' = [pc EXCEPT ![g] = "get"]
       /\ attempt' = [attempt EXCEPT ![g] = 0]
       /\ UNCHANGED <<scanVars, toolVars>>
       /\ UNCHANGED <<faultBudget, faults, variant, urls, concurrency, existingFileMap, disk, semaphore, wg, next,
                      mainPc, arg, fd, results, slotWriters, requests, sleeps, fileOps,
                      lastOutcome, progressChan, progressClosed, completed, progressPc>>

ShouldRetryAnyFailure(g, retryable) == attempt[g] < MaxRetries

\* isRetryable...(...) && attempt < defaultRetryConfig.MaxRetries
ShouldRetry(g, retryable) == retryable /\ attempt[g] < MaxRetries

\* The retrying downloader's decision after a failed attempt: continue the loop
\* (attempt++ and, while attempt <= MaxRetries, back to the sleep) or return.
AfterFailure(g, r, retryable) ==
    IF variant = "retry"
    THEN IF ShouldRetry(g, retryable)
         THEN /\ attempt' = [attempt EXCEPT ![g] = attempt[g] + 1]
              /\ IF attempt[g] + 1 <= MaxRetries
                 THEN /\ result' = [result EXCEPT ![g] = [r EXCEPT !.Retries = attempt[g]]]
                      /\ pc' = [pc EXCEPT ![g] = "backoff"]
                 ELSE /\ result' = [result EXCEPT ![g] =
                            [r EXCEPT !.Error = <<"max", "retries", "exceeded">>,
                                      !.Retries = MaxRetries]]
                      /\ pc' = [pc EXCEPT ![g] = "store"]
         ELSE /\ attempt' = attempt
              /\ result' = [result EXCEPT ![g] = [r EXCEPT !.Retries = attempt[g]]]
              /\ pc' = [pc EXCEPT ![g] = "store"]
    ELSE /\ attempt' = attempt
         /\ result' = [result EXCEPT ![g] = r]
         /\ pc' = [pc EXCEPT ![g] = "store"]

\* time.Sleep(calculateBackoffDelay(attempt-1, defaultRetryConfig)), attempt > 0
Backoff(g) ==
    /\ pc[g] = "backoff"
    /\ attempt[g] > 0
    /\ sleeps' = [sleeps EXCEPT ![g] = sleeps[g] + 1]
    /\ pc' = [pc EXCEPT ![g] = "get"]
    /\ UNCHANGED <<scanVars, toolVars>>
    /\ UNCHANGED <<faultBudget, faults, variant, urls, concurrency, existingFileMap, disk, semaphore, wg, next,
                   mainPc, arg, attempt, result, fd, results, slotWriters, requests, fileOps,
                   lastOutcome, progressChan, progressClosed, completed, progressPc>>

RecordFirstError(r, e) == IF r.Error = NoError THEN [r EXCEPT !.Error = e] ELSE r

\* result.Error = fmt.Errorf(...)
RecordError(r, e) == [r EXCEPT !.Error = e]

\* httpClient.Get and the checks on its error and status code
HttpGet(g) ==
    /\ pc[g] = "get"
    /\ \E o \in Outcomes :
          LET u == arg[g].url
              err == TransportErrorText(u, o.cause)
              failed == o.kind = "err" \/ o.status # StatusOK
          IN /\ failed => MayFail
             /\ faults' = IF failed THEN faults + 1 ELSE faults
             /\ lastOutcome' = [lastOutcome EXCEPT ![g] = o]
             /\ IF o.kind = "err"
                THEN AfterFailure(g,
                        RecordError(result[g], Errorf(<<"HTTP", "request", "failed:">>, err)),
                        isRetryableError(err))
                ELSE IF o.status # StatusOK
                THEN AfterFailure(g,
                        RecordError(result[g], <<"HTTP", "status", StatusText(o.status)>>),
                        isRetryableHTTPStatus(o.status))
                ELSE /\ pc' = [pc EXCEPT ![g] = "create"]
                     /\ UNCHANGED <<attempt, result>>
    /\ requests' = [requests EXCEPT ![g] = requests[g] + 1]
    /\ UNCHANGED <<scanVars, toolVars>>
    /\ UNCHANGED <<faultBudget, variant, urls, concurrency, existingFileMap, disk, semaphore, wg, next,
                   mainPc, arg, fd, results, slotWriters, sleeps, fileOps,
                   progressChan, progressClosed, completed, progressPc>>

LocalErrorClassified(e) == isRetryableError(e)

\* A failed os.Create or copy returns at once: no classifier is consulted.
LocalErrorRetryable(e) == FALSE

\* os.Create(filePath): creates the file or truncates the one that is there
CreateFile(g) ==
    LET name == DestName(variant, arg[g].url) IN
    /\ pc[g] = "create"
    /\ \/ /\ disk' = [disk EXCEPT ![name] = "empty"]
          /\ fd' = [fd EXCEPT ![g] = "linked"]
          /\ fileOps' = [fileOps EXCEPT ![g] = fileOps[g] + 1]
          /\ pc' = [pc EXCEPT ![g] = "copy"]
          /\ UNCHANGED <<attempt, result, faults>>
       \/ /\ MayFail
          /\ faults' = faults + 1
          /\ \E e \in FileErrors :
                AfterFailure(g,
                   RecordError(result[g], Errorf(<<"failed", "to", "create", "file:">>, e)),
                   LocalErrorRetryable(e))
          /\ UNCHANGED <<disk, fd, fileOps>>
    /\ UNCHANGED <<scanVars, toolVars>>
    /\ UNCHANGED <<faultBudget, variant, urls, concurrency, existingFileMap, semaphore, wg, next, mainPc,
                   arg, results, slotWriters, requests, sleeps, lastOutcome,
                   progressChan, progressClosed, completed, progressPc>>

\* The retrying downloader removes the file after a failed copy; the other two
\* downloaders return with the file as the copy left it.
RemovesPartialFile(v) == v = "retry"

\* io.Copy / io.CopyBuffer into the file, the closes, and what follows the copy
CopyBody(g) ==
    LET name == DestName(variant, arg[g].url)
        written(state) == IF fd[g] = "linked" THEN [disk EXCEPT ![name] = state] ELSE disk
    IN
    /\ pc[g] = "copy"
    /\ \/ /\ disk' = written("full")
          /\ fd' = [fd EXCEPT ![g] = "none"]
          /\ fileOps' = [fileOps EXCEPT ![g] = fileOps[g] + 1]
          /\ result' = [result EXCEPT ![g] =
                [result[g] EXCEPT !.Success = TRUE,
                                  !.FilePath = FilePath(variant, arg[g].url),
                                  !.Retries = IF variant = "retry" THEN attempt[g] ELSE @]]
          /\ pc' = [pc EXCEPT ![g] = "store"]
          /\ UNCHANGED <<attempt, faults>>
       \/ /\ MayFail
          /\ faults' = faults + 1
          /\ \E e \in FileErrors :
                AfterFailure(g,
                   RecordError(result[g], Errorf(<<"failed", "to", "write", "file:">>, e)),
                   LocalErrorRetryable(e))
          /\ IF RemovesPartialFile(variant)
             THEN /\ disk' = [disk EXCEPT ![name] = "absent"]
                  /\ fd' = [h \in Tasks |->
                              IF h = g THEN "none"
                              ELSE IF fd[h] = "linked" /\ DestName(variant, arg[h].url) = name
                                   THEN "unlinked" ELSE fd[h]]
                  /\ fileOps' = [fileOps EXCEPT ![g] = fileOps[g] + 2]
             ELSE /\ disk' = written("partial")
                  /\ fd' = [fd EXCEPT ![g] = "none"]
                  /\ fileOps' = [fileOps EXCEPT ![g] = fileOps[g] + 1]
    /\ UNCHANGED <<scanVars, toolVars>>
    /\ UNCHANGED <<faultBudget, variant, urls, concurrency, existingFileMap, semaphore, wg, next, mainPc,
                   arg, results, slotWriters, requests, sleeps, lastOutcome,
                   progressChan, progressClosed, completed, progressPc>>

ResultSlotOfLoopVariable(g) == IF next <= Len(urls) THEN next ELSE Len(urls)

\* The slot of the results slice a goroutine assigns.
ResultSlot(g) == arg[g].index

\* results[index] = result
StoreResult(g) ==
    /\ pc[g] = "store"
    /\ results' = [results EXCEPT ![ResultSlot(g)] = result[g]]
    /\ slotWriters' = [slotWriters EXCEPT ![ResultSlot(g)] = Append(@, g)]
    /\ pc' = [pc EXCEPT ![g] = "progress"]
    /\ UNCHANGED <<scanVars, toolVars>>
    /\ UNCHANGED <<faultBudget, faults, variant, urls, concurrency, existingFileMap, disk, semaphore, wg, next,
                   mainPc, arg, attempt, result, fd, requests, sleeps, fileOps,
                   lastOutcome, progressChan, progressClosed, completed, progressPc>>

\* progressChan <- 1 on a channel made with capacity total
SendProgress(g) ==
    /\ pc[g] = "progress"
    /\ progressChan < ProgressCapacity
    /\ progressChan' = progressChan + 1
    /\ pc' = [pc EXCEPT ![g] = "release"]
    /\ UNCHANGED <<scanVars, toolVars>>
    /\ UNCHANGED <<faultBudget, faults, variant, urls, concurrency, existingFileMap, disk, semaphore, wg, next,
                   mainPc, arg, attempt, result, fd, results, slotWriters, requests, sleeps,
                   fileOps, lastOutcome, progressClosed, completed, progressPc>>

ReleaseKeepsSlot(g) ==
    /\ pc[g] = "release"
    /\ semaphore' = semaphore
    /\ wg' = wg - 1
    /\ pc' = [pc EXCEPT ![g] = "done"]
    /\ UNCHANGED <<scanVars, toolVars>>
    /\ UNCHANGED <<faultBudget, faults, variant, urls, concurrency, existingFileMap, disk, next, mainPc, arg,
                   attempt, result, fd, results, slotWriters, requests, sleeps, fileOps,
                   lastOutcome, progressChan, progressClosed, completed, progressPc>>

\* The deferred calls: <-semaphore, then wg.Done()
Release(g) ==
    /\ pc[g] = "release"
    /\ semaphore' = semaphore - 1
    /\ wg' = wg - 1
    /\ pc' = [pc EXCEPT ![g] = "done"]
    /\ UNCHANGED <<scanVars, toolVars>>
    /\ UNCHANGED <<faultBudget, faults, variant, urls, concurrency, existingFileMap, disk, next, mainPc, arg,
                   attempt, result, fd, results, slotWriters, requests, sleeps, fileOps,
                   lastOutcome, progressChan, progressClosed, completed, progressPc>>

\* The progress goroutine takes one update (a closed channel yields zero values
\* to the select of the ticker-driven goroutine); the ticker-driven goroutine
\* returns once completed >= total.
ProgressReceive ==
    /\ progressPc = "run"
    /\ \/ progressChan > 0
       \/ progressClosed /\ variant # "planinfo"
    /\ progressChan' = IF progressChan > 0 THEN progressChan - 1 ELSE 0
    /\ completed' = completed + 1
    /\ progressPc' = IF variant # "planinfo" /\ completed + 1 >= total THEN "exit" ELSE "run"
    /\ UNCHANGED <<scanVars, toolVars>>
    /\ UNCHANGED <<faultBudget, faults, variant, urls, concurrency, existingFileMap, disk, semaphore, wg, next,
                   mainPc, arg, pc, attempt, result, fd, results, slotWriters, requests,
                   sleeps, fileOps, lastOutcome, progressClosed>>

\* for range progressChan ends when the channel is closed and drained
ProgressRangeEnd ==
    /\ progressPc = "run"
    /\ variant = "planinfo"
    /\ progressClosed
    /\ progressChan = 0
    /\ progressPc' = "exit"
    /\ UNCHANGED <<scanVars, toolVars>>
    /\ UNCHANGED <<faultBudget, faults, variant, urls, concurrency, existingFileMap, disk, semaphore, wg, next,
                   mainPc, arg, pc, attempt, result, fd, results, slotWriters, requests,
                   sleeps, fileOps, lastOutcome, progressChan, progressClosed, completed>>

\* wg.Wait(); close(progressChan); return results
Return ==
    /\ mainPc = "loop"
    /\ next > Len(urls)
    /\ wg = 0
    /\ progressClosed' = TRUE
    /\ mainPc' = "returned"
    /\ UNCHANGED <<scanVars, toolVars>>
    /\ UNCHANGED <<faultBudget, faults, variant, urls, concurrency, existingFileMap, disk, semaphore, wg, next,
                   arg, pc, attempt, result, fd, results, slotWriters, requests, sleeps,
                   fileOps, lastOutcome, progressChan, completed, progressPc>>

\* The process is terminated before downloadFiles has returned and the
\* program is run again on the same list: the directory is as the terminated
\* run left it, main builds existingFileMap from it, everything else starts
\* afresh.
FetchTerminate ==
    /\ mainPc = "loop"
    /\ existingFileMap' = buildExistingFileMap(disk)
    /\ semaphore' = 0
    /\ wg' = 0
    /\ next' = 1
    /\ arg' = [g \in Tasks |-> [index |-> 0, url |-> ""]]
    /\ pc' = [g \in Tasks |-> "unstarted"]
    /\ attempt' = [g \in Tasks |-> 0]
    /\ result' = [g \in Tasks |-> ZeroResult]
    /\ fd' = [g \in Tasks |-> "none"]
    /\ results' = [i \in Tasks |-> ZeroResult]
    /\ slotWriters' = [i \in Tasks |-> <<>>]
    /\ requests' = [g \in Tasks |-> 0]
    /\ sleeps' = [g \in Tasks |-> 0]
    /\ fileOps' = [g \in Tasks |-> 0]
    /\ lastOutcome' = [g \in Tasks |-> NoOutcome]
    /\ progressChan' = 0
    /\ progressClosed' = FALSE
    /\ completed' = 0
    /\ progressPc' = "run"
    /\ UNCHANGED <<variant, urls, concurrency, disk, mainPc, faultBudget, faults>>
    /\ UNCHANGED <<scanVars, toolVars>>

FetchNext ==
    \/ Spawn
    \/ \E g \in Tasks : Acquire(g)
    \/ \E g \in Tasks : DownloadFileBegin(g)
    \/ \E g \in Tasks : Backoff(g)
    \/ \E g \in Tasks : HttpGet(g)
    \/ \E g \in Tasks : CreateFile(g)
    \/ \E g \in Tasks : CopyBody(g)
    \/ \E g \in Tasks : StoreResult(g)
    \/ \E g \in Tasks : SendProgress(g)
    \/ \E g \in Tasks : Release(g)
    \/ ProgressReceive
    \/ ProgressRangeEnd
    \/ Return


\* =============================================================== scanning
targetCodes == {"99283", "99284", "99285", "99291"}

\* strings.HasSuffix
HasSuffix(s, suffix) ==
    Len(s) >= Len(suffix) /\ SubSeq(s, Len(s) - Len(suffix) + 1, Len(s)) = suffix

ScanVariants == {"plain", "gzip"}

\* A JSON object: code is its billing_code ("" when it has none), strCode
\* tells whether that member is a JSON string, num is the text of a numeric
\* member ("" when it has none), kids are the values of its other members.
Obj(code, strCode, num, kids) ==
    [kind |-> "obj", code |-> code, strCode |-> strCode, num |-> num, kids |-> kids]

\* A JSON array of the given items.
Arr(items) == [kind |-> "arr", code |-> "", strCode |-> FALSE, num |-> "", kids |-> items]

\* A well-formed value that is neither object nor array, and malformed text.
Scalar == [kind |-> "num", code |-> "", strCode |-> FALSE, num |-> "7", kids |-> <<>>]
Malformed == [kind |-> "bad", code |-> "", strCode |-> FALSE, num |-> "", kids |-> <<>>]

\* An object that has only a billing_code string.
Coded(code) == Obj(code, TRUE, "", <<>>)

\* decoder.Decode(&record) with record a map[string]interface{}: "ok" for an
\* object, "type" for a well-formed value of another kind (the value is
\* consumed), "syntax" for malformed text (the error stays in the decoder).
Dec(e) ==
    CASE e.kind = "obj" -> "ok"
      [] e.kind = "bad" -> "syntax"
      [] OTHER -> "type"

\* The text encoding/json writes for a number it decoded into a float64.
Float64Text(t) == IF t = "9007199254740993" THEN "9007199254740992" ELSE t

\* What a source file can hold: ws leading whitespace bytes, then first, the
\* first non-whitespace byte ("" for a file that is empty or all whitespace),
\* then the rest of the top-level values, elems; gz tells whether the bytes
\* are a gzip stream.
File(name, gz, ws, first, elems) ==
    [name |-> name, gz |-> gz, ws |-> ws, first |-> first, elems |-> elems]

ArrayABC == <<Coded("99283"), Coded("00000"), Coded("99285")>>
ObjectsAB == <<Obj("", FALSE, "", <<Coded("99283"), Coded("00000"), Coded("99284")>>),
               Coded("99291")>>
ArrayBroken == <<Coded("99284"), Scalar, Malformed, Coded("99283")>>
ArrayScalar == <<Coded("99284"), Scalar, Coded("99283")>>
ObjectsBroken == <<Coded("99283"), Malformed, Coded("99284")>>
ObjectsBad == <<Malformed, Coded("99283")>>
ObjectNested ==
    <<Obj("99291", TRUE, "",
          <<Arr(<<Coded("99283"), Obj("", FALSE, "", <<Coded("99284")>>)>>),
            Obj("99285", TRUE, "", <<Coded("00000"), Coded("99283")>>)>>)>>
ArrayFields == <<Obj("99283", TRUE, "9007199254740993", <<>>),
                 Obj("99283", FALSE, "1", <<>>),
                 Obj("", FALSE, "1", <<Coded("99284")>>),
                 Obj("99285", TRUE, "1", <<>>)>>

FileData ==
    [fA |-> File(<<"a", ".json">>, FALSE, 0, "[", ArrayABC),
     fB |-> File(<<"b", ".json">>, FALSE, 0, "{", ObjectsAB),
     fC |-> File(<<"c", ".json">>, FALSE, 1, "[", ArrayBroken),
     fD |-> File(<<"d", ".json">>, FALSE, 2, "x", <<>>),
     fE |-> File(<<"e", ".txt">>, FALSE, 0, "[", <<Coded("99283")>>),
     fF |-> File(<<"f", ".json">>, FALSE, 0, "{", ObjectsBroken),
     fG |-> File(<<"g", ".json">>, FALSE, 1, "{", ObjectNested),
     fH |-> File(<<"h", ".json">>, FALSE, 0, "[", ArrayFields),
     fI |-> File(<<"i", ".json">>, FALSE, 0, "[", ArrayScalar),
     fJ |-> File(<<"j", ".json">>, FALSE, 0, "{", ObjectsBad),
     fW |-> File(<<"w", ".json">>, FALSE, 2, "", <<>>),
     fZ |-> File(<<"z", ".json">>, FALSE, 0, "", <<>>),
     gA |-> File(<<"a", ".json", ".gz">>, TRUE, 0, "[", ArrayABC),
     gB |-> File(<<"b", ".json", ".gz">>, TRUE, 0, "{", ObjectsAB),
     gC |-> File(<<"c", ".json", ".gz">>, TRUE, 1, "[", ArrayScalar),
     gD |-> File(<<"d", ".gz">>, FALSE, 0, "[", <<>>),
     gE |-> File(<<"e", ".gz">>, TRUE, 0, "", <<>>),
     gF |-> File(<<"f", ".json", ".gz">>, TRUE, 0, "{", ObjectsBroken),
     gG |-> File(<<"g", ".json", ".gz">>, TRUE, 1, "{", ObjectNested),
     gH |-> File(<<"h", ".json", ".gz">>, TRUE, 0, "[", ArrayFields),
     gI |-> File(<<"i", ".json", ".gz">>, TRUE, 0, "[", ArrayBroken),
     gJ |-> File(<<"j", ".json", ".gz">>, TRUE, 0, "{", ObjectsBad),
     gW |-> File(<<"w", ".json", ".gz">>, TRUE, 2, "", <<>>),
     gX |-> File(<<"x", ".json", ".gz">>, TRUE, 2, "x", <<>>)]

\* os.ReadDir returns the entries sorted by name.
DirOrder(v) ==
    IF v = "plain"
    THEN <<"fA", "fB", "fC", "fD", "fE", "fF", "fG", "fH", "fI", "fJ", "fW", "fZ">>
    ELSE <<"gA", "gB", "gC", "gD", "gE", "gF", "gG", "gH", "gI", "gJ", "gW", "gX">>

\* The files a source directory is drawn from: all of them, or the first five.
AllFiles(v) == {DirOrder(v)[i] : i \in 1..Len(DirOrder(v))}
BasicFiles(v) == {DirOrder(v)[i] : i \in 1..5}

\* The suffix main requires of a source file name.
SourceSuffix(v) == IF v = "plain" THEN <<".json">> ELSE <<".gz">>

Workers == 1..numWorkers

NoFile == "none"

\* The listing of the source directory without the files the ledger names.
FilesToProcess(v, files, processed) ==
    SelectSeq(DirOrder(v),
              LAMBDA f : /\ f \in files
                         /\ HasSuffix(ToLower(FileData[f].name), SourceSuffix(v))
                         /\ FileData[f].name \notin processed)

\* The record kept of the run before: whether there was one and how it ended,
\* the files it claimed, the ledger it loaded, the writes of the ledger file it
\* made, and the ledger and the output length it left.
NoRun == [ended |-> "none", claimed |-> {}, ledgerRead |-> {}, saves |-> 0,
          ledger |-> {}, outLen |-> 0]

\* A process that has not yet run main.
ProcessStart ==
    /\ processedFiles = {}
    /\ filesToProcess = <<>>
    /\ scanPc = "start"
    /\ nextJob = 1
    /\ jobs = <<>>
    /\ jobsClosed = FALSE
    /\ resultsChan = <<>>
    /\ collected = 0
    /\ totalNewRecords = 0
    /\ mutexHolder = 0
    /\ wpc = [w \in Workers |-> "unstarted"]
    /\ wfile = [w \in Workers |-> NoFile]
    /\ wmode = [w \in Workers |-> "none"]
    /\ wpos = [w \in Workers |-> 0]
    /\ wfound = [w \in Workers |-> 0]
    /\ werr = [w \in Workers |-> "nil"]
    /\ wread = [w \in Workers |-> 0]
    /\ buf = <<>>
    /\ ledgerAtStart = {}
    /\ received = {}
    /\ saves = 0

ScanInit(candidates, maxFiles, maxWorkers) ==
    /\ scanVariant \in ScanVariants
    /\ numWorkers \in 1..maxWorkers
    /\ dirFiles \in {fs \in SUBSET candidates[scanVariant] :
                        Cardinality(fs) \in 1..maxFiles}
    /\ ledgerDisk \in {{}, {FileData[DirOrder(scanVariant)[1]].name}}
    /\ out = <<>>
    /\ run = 1
    /\ lastRun = NoRun
    /\ ProcessStart

\* main up to the start of the workers: load the ledger, list the directory,
\* keep the files not yet processed; return when there is none, else make the
\* channels, open the output and start the workers.
OpenOutputTruncated(content) == <<>>

\* os.OpenFile(outputFile, os.O_APPEND|os.O_CREATE|os.O_WRONLY, 0644): the
\* file keeps what it holds.
OpenOutput(content) == content

StartRun ==
    /\ scanPc = "start"
    /\ processedFiles' = ledgerDisk
    /\ ledgerAtStart' = ledgerDisk
    /\ filesToProcess' = FilesToProcess(scanVariant, dirFiles, ledgerDisk)
    /\ IF Len(filesToProcess') = 0
       THEN /\ scanPc' = "done"
            /\ wpc' = wpc
            /\ out' = out
       ELSE /\ scanPc' = "send"
            /\ wpc' = [w \in Workers |-> "range"]
            /\ out' = OpenOutput(out)
    /\ UNCHANGED <<fetchVars, toolVars>>
    /\ UNCHANGED <<run, lastRun, received, saves, wread,
                   scanVariant, numWorkers, dirFiles, ledgerDisk, nextJob, jobs, jobsClosed,
                   resultsChan, collected, totalNewRecords, mutexHolder, wfile, wmode, wpos,
                   wfound, werr, buf>>

\* jobs <- filePath, on a channel with room for every file
SendJob ==
    /\ scanPc = "send"
    /\ nextJob <= Len(filesToProcess)
    /\ jobs' = Append(jobs, filesToProcess[nextJob])
    /\ nextJob' = nextJob + 1
    /\ UNCHANGED <<fetchVars, toolVars>>
    /\ UNCHANGED <<run, lastRun, ledgerAtStart, received, saves, wread,
                   scanVariant, numWorkers, dirFiles, ledgerDisk, processedFiles,
                   filesToProcess, scanPc, jobsClosed, resultsChan, collected,
                   totalNewRecords, mutexHolder, wpc, wfile, wmode, wpos, wfound, werr,
                   buf, out>>

\* close(jobs)
CloseJobs ==
    /\ scanPc = "send"
    /\ nextJob > Len(filesToProcess)
    /\ jobsClosed' = TRUE
    /\ scanPc' = "collect"
    /\ UNCHANGED <<fetchVars, toolVars>>
    /\ UNCHANGED <<run, lastRun, ledgerAtStart, received, saves, wread,
                   scanVariant, numWorkers, dirFiles, ledgerDisk, processedFiles,
                   filesToProcess, nextJob, jobs, resultsChan, collected, totalNewRecords,
                   mutexHolder, wpc, wfile, wmode, wpos, wfound, werr, buf, out>>

\* for filePath := range jobs: take the next file
Claim(w) ==
    /\ wpc[w] = "range"
    /\ Len(jobs) > 0
    /\ wfile' = [wfile EXCEPT ![w] = Head(jobs)]
    /\ jobs' = Tail(jobs)
    /\ wpc' = [wpc EXCEPT ![w] = "lock"]
    /\ UNCHANGED <<fetchVars, toolVars>>
    /\ UNCHANGED <<run, lastRun, ledgerAtStart, received, saves, wread,
                   scanVariant, numWorkers, dirFiles, ledgerDisk, processedFiles,
                   filesToProcess, scanPc, nextJob, jobsClosed, resultsChan, collected,
                   totalNewRecords, mutexHolder, wmode, wpos, wfound, werr, buf, out>>

\* for filePath := range jobs ends: the channel is closed and empty
WorkerExit(w) ==
    /\ wpc[w] = "range"
    /\ Len(jobs) = 0
    /\ jobsClosed
    /\ wpc' = [wpc EXCEPT ![w] = "exit"]
    /\ UNCHANGED <<fetchVars, toolVars>>
    /\ UNCHANGED <<run, lastRun, ledgerAtStart, received, saves, wread,
                   scanVariant, numWorkers, dirFiles, ledgerDisk, processedFiles,
                   filesToProcess, scanPc, nextJob, jobs, jobsClosed, resultsChan, collected,
                   totalNewRecords, mutexHolder, wfile, wmode, wpos, wfound, werr, buf, out>>

MutexFreeAlways == TRUE

\* writerMutex can be locked.
MutexFree == mutexHolder = 0

\* writerMutex.Lock()
Lock(w) ==
    /\ wpc[w] = "lock"
    /\ MutexFree
    /\ mutexHolder' = w
    /\ wpc' = [wpc EXCEPT ![w] = "begin"]
    /\ UNCHANGED <<fetchVars, toolVars>>
    /\ UNCHANGED <<run, lastRun, ledgerAtStart, received, saves, wread,
                   scanVariant, numWorkers, dirFiles, ledgerDisk, processedFiles,
                   filesToProcess, scanPc, nextJob, jobs, jobsClosed, resultsChan, collected,
                   totalNewRecords, wfile, wmode, wpos, wfound, werr, buf, out>>

\* The record the encoder writes for the object v found at path below
\* element i of file f (the element itself when path is empty): the object as
\* Decode left it, its numbers float64 values.
Rec(f, i, path, v) ==
    [file |-> FileData[f].name, elem |-> i, path |-> path, code |-> v.code,
     num |-> Float64Text(v.num)]

\* record["billing_code"].(string) is a target code
IsMatch(e) == e.strCode /\ e.code \in targetCodes

\* The orders in which a range over a map of n entries can visit them.
MapOrders(n) == {p \in [1..n -> 1..n] : \A a, b \in 1..n : a # b => p[a] # p[b]}

RECURSIVE search(_, _, _, _), searchKids(_, _, _, _, _, _)

\* The matches search appends while it visits the values p[k], p[k+1], ... of v.
searchKids(f, i, path, v, p, k) ==
    IF k > Len(v.kids) THEN {<<>>}
    ELSE {a \o b : a \in search(f, i, Append(path, p[k]), v.kids[p[k]]),
                   b \in searchKids(f, i, path, v, p, k + 1)}

\* The closure search of findMatchingObjectsRecursive: the sequences of matches
\* it can append for value v. A map is a match itself when its code is one, and
\* its values are searched in whatever order the range yields them; the items
\* of a slice are searched in order; any other value holds nothing.
search(f, i, path, v) ==
    CASE v.kind = "obj" ->
            LET self == IF IsMatch(v) THEN <<Rec(f, i, path, v)>> ELSE <<>>
            IN {self \o t : t \in UNION {searchKids(f, i, path, v, p, 1) :
                                          p \in MapOrders(Len(v.kids))}}
      [] v.kind = "arr" ->
            searchKids(f, i, path, v, [k \in 1..Len(v.kids) |-> k], 1)
      [] OTHER -> {<<>>}

\* findMatchingObjectsRecursive on element i of f: the sequences it can return
RecursiveMatches(f, i) == search(f, i, <<>>, FileData[f].elems[i])

\* The position a worker moves to when its scan returns.
AfterScanNoFlush == "unlock"

\* What follows the scan in the worker: writer.Flush() in the gzip scanner,
\* whose sink is a bufio.Writer; the unlock in the plain scanner, which writes
\* to the file itself.
AfterScan == IF scanVariant = "gzip" THEN "flush" ELSE "unlock"

ScanReturnsNoError(w, found, err) ==
    /\ wfound' = [wfound EXCEPT ![w] = found]
    /\ werr' = [werr EXCEPT ![w] = "nil"]
    /\ wpc' = [wpc EXCEPT ![w] = AfterScan]

\* The scan returns (found, err).
ScanReturns(w, found, err) ==
    /\ wfound' = [wfound EXCEPT ![w] = found]
    /\ werr' = [werr EXCEPT ![w] = err]
    /\ wpc' = [wpc EXCEPT ![w] = AfterScan]

\* The scan goes on with the elements of the file.
ScanGoesOn(w, mode) ==
    /\ wmode' = [wmode EXCEPT ![w] = mode]
    /\ wpc' = [wpc EXCEPT ![w] = "scan"]
    /\ UNCHANGED <<wfound, werr>>

PeekWithoutUnread(f) ==
    IF f.first = "" THEN [byte |-> "", read |-> f.ws]
    ELSE [byte |-> f.first, read |-> f.ws + 1]

\* The loop that skips leading whitespace: ReadByte until a byte is no space,
\* then UnreadByte puts that byte back; at end of input nothing is put back.
PeekFirstNonWhitespace(f) ==
    IF f.first = "" THEN [byte |-> "", read |-> f.ws]
    ELSE [byte |-> f.first, read |-> (f.ws + 1) - 1]

\* Open the file and find its first non-whitespace byte: the plain scanner's
\* processFileAndWriteMatches up to its loops; the gzip worker's suffix test,
\* NewStreamingGzipProcessor and ProcessMatches up to processArray/processObjects.
ScanBegin(w) ==
    LET f == FileData[wfile[w]] IN
    /\ wpc[w] = "begin"
    /\ wpos' = [wpos EXCEPT ![w] = 0]
    /\ wread' = [wread EXCEPT ![w] = IF scanVariant = "gzip" /\ ~f.gz THEN 0
                                     ELSE PeekFirstNonWhitespace(f).read]
    /\ IF scanVariant = "plain"
       THEN CASE f.first = "" -> ScanReturns(w, 0, "nil") /\ wmode' = wmode
              [] f.first = "[" -> ScanGoesOn(w, "array")
              [] f.first = "{" -> ScanGoesOn(w, "object")
              [] OTHER -> ScanReturns(w, 0, "not valid JSON") /\ wmode' = wmode
       ELSE IF ~HasSuffix(ToLower(f.name), <<".gz">>)
            THEN ScanReturns(w, 0, "JSON file processing is disabled") /\ wmode' = wmode
            ELSE IF ~f.gz
            THEN ScanReturns(w, 0, "failed to create gzip processor") /\ wmode' = wmode
            ELSE CASE f.first = "" -> ScanReturns(w, 0, "failed to peek first byte")
                                      /\ wmode' = wmode
                   [] f.first = "[" -> ScanGoesOn(w, "array")
                   [] f.first = "{" -> ScanGoesOn(w, "object")
                   [] OTHER -> ScanReturns(w, 0, "unexpected JSON structure")
                               /\ wmode' = wmode
    /\ UNCHANGED <<fetchVars, toolVars>>
    /\ UNCHANGED <<run, lastRun, ledgerAtStart, received, saves,
                   scanVariant, numWorkers, dirFiles, ledgerDisk, processedFiles,
                   filesToProcess, scanPc, nextJob, jobs, jobsClosed, resultsChan, collected,
                   totalNewRecords, mutexHolder, wfile, buf, out>>

\* encoder.Encode for each record of recs: straight into the output file in the
\* plain scanner; into the bufio.Writer in the gzip scanner, which may first
\* empty a full buffer into the file.
WriteRecords(recs) ==
    IF scanVariant = "plain"
    THEN out' = out \o recs /\ buf' = buf
    ELSE \/ buf' = buf \o recs /\ out' = out
         \/ Len(recs) > 0 /\ Len(buf) > 0 /\ out' = out \o buf /\ buf' = recs

\* One turn of the scan loop: the end test, one Decode, the match test, the writes.
ScanElement(w) ==
    LET f == wfile[w]
        elems == FileData[f].elems
        i == wpos[w] + 1
        e == elems[i]
    IN
    /\ wpc[w] = "scan"
    /\ IF wmode[w] = "array"
       THEN IF wpos[w] = Len(elems)
            THEN ScanReturns(w, wfound[w], "nil") /\ UNCHANGED <<wpos, buf, out>>
            ELSE CASE Dec(e) = "ok" ->
                        /\ wpos' = [wpos EXCEPT ![w] = i]
                        /\ IF IsMatch(e)
                           THEN /\ WriteRecords(<<Rec(f, i, <<>>, e)>>)
                                /\ wfound' = [wfound EXCEPT ![w] = wfound[w] + 1]
                           ELSE UNCHANGED <<buf, out, wfound>>
                        /\ UNCHANGED <<wpc, werr>>
                   [] Dec(e) = "type" ->
                        IF scanVariant = "plain"
                        THEN /\ wpos' = [wpos EXCEPT ![w] = i]
                             /\ UNCHANGED <<wpc, werr, wfound, buf, out>>
                        ELSE ScanReturns(w, wfound[w], "failed to decode record")
                             /\ UNCHANGED <<wpos, buf, out>>
                   [] OTHER ->
                        \* a syntax error stays in the decoder: the plain scanner's
                        \* loop meets it again on every turn
                        IF scanVariant = "plain"
                        THEN UNCHANGED <<wpos, wpc, werr, wfound, buf, out>>
                        ELSE ScanReturns(w, wfound[w], "failed to decode record")
                             /\ UNCHANGED <<wpos, buf, out>>
       ELSE IF scanVariant = "plain"
            THEN \* one Decode of the root object, then the recursive search
                 IF Len(elems) = 0 \/ Dec(e) # "ok"
                 THEN ScanReturns(w, 0, "failed to decode root object")
                      /\ UNCHANGED <<wpos, buf, out>>
                 ELSE \E matches \in RecursiveMatches(f, i) :
                         /\ wpos' = [wpos EXCEPT ![w] = i]
                         /\ WriteRecords(matches)
                         /\ ScanReturns(w, Len(matches), "nil")
            ELSE IF wpos[w] = Len(elems)
                 THEN ScanReturns(w, wfound[w], "nil") /\ UNCHANGED <<wpos, buf, out>>
                 ELSE IF Dec(e) # "ok"
                 THEN ScanReturns(w, wfound[w], "failed to decode record")
                      /\ UNCHANGED <<wpos, buf, out>>
                 ELSE \E recs \in IF IsMatch(e) THEN {<<Rec(f, i, <<>>, e)>>}
                                   ELSE RecursiveMatches(f, i) :
                         /\ wpos' = [wpos EXCEPT ![w] = i]
                         /\ WriteRecords(recs)
                         /\ wfound' = [wfound EXCEPT ![w] = wfound[w] + Len(recs)]
                         /\ UNCHANGED <<wpc, werr>>
    /\ UNCHANGED <<fetchVars, toolVars>>
    /\ UNCHANGED <<run, lastRun, ledgerAtStart, received, saves, wread,
                   scanVariant, numWorkers, dirFiles, ledgerDisk, processedFiles,
                   filesToProcess, scanPc, nextJob, jobs, jobsClosed, resultsChan, collected,
                   totalNewRecords, mutexHolder, wfile, wmode>>

\* writer.Flush() after each file (gzip scanner)
Flush(w) ==
    /\ wpc[w] = "flush"
    /\ out' = out \o buf
    /\ buf' = <<>>
    /\ wpc' = [wpc EXCEPT ![w] = "unlock"]
    /\ UNCHANGED <<fetchVars, toolVars>>
    /\ UNCHANGED <<run, lastRun, ledgerAtStart, received, saves, wread,
                   scanVariant, numWorkers, dirFiles, ledgerDisk, processedFiles,
                   filesToProcess, scanPc, nextJob, jobs, jobsClosed, resultsChan, collected,
                   totalNewRecords, mutexHolder, wfile, wmode, wpos, wfound, werr>>

\* writerMutex.Unlock()
Unlock(w) ==
    /\ wpc[w] = "unlock"
    /\ mutexHolder' = 0
    /\ wpc' = [wpc EXCEPT ![w] = "send"]
    /\ UNCHANGED <<fetchVars, toolVars>>
    /\ UNCHANGED <<run, lastRun, ledgerAtStart, received, saves, wread,
                   scanVariant, numWorkers, dirFiles, ledgerDisk, processedFiles,
                   filesToProcess, scanPc, nextJob, jobs, jobsClosed, resultsChan, collected,
                   totalNewRecords, wfile, wmode, wpos, wfound, werr, buf, out>>

\* results <- result{fileName, recordsFound, err}
SendResult(w) ==
    /\ wpc[w] = "send"
    /\ Len(resultsChan) < Len(filesToProcess)
    /\ resultsChan' = Append(resultsChan,
          [fileName |-> FileData[wfile[w]].name, recordsFound |-> wfound[w], err |-> werr[w]])
    /\ wpc' = [wpc EXCEPT ![w] = "range"]
    /\ wfile' = [wfile EXCEPT ![w] = NoFile]
    /\ wmode' = [wmode EXCEPT ![w] = "none"]
    /\ wpos' = [wpos EXCEPT ![w] = 0]
    /\ wfound' = [wfound EXCEPT ![w] = 0]
    /\ werr' = [werr EXCEPT ![w] = "nil"]
    /\ wread' = [wread EXCEPT ![w] = 0]
    /\ UNCHANGED <<fetchVars, toolVars>>
    /\ UNCHANGED <<run, lastRun, ledgerAtStart, received, saves,
                   scanVariant, numWorkers, dirFiles, ledgerDisk, processedFiles,
                   filesToProcess, scanPc, nextJob, jobs, jobsClosed, collected,
                   totalNewRecords, mutexHolder, buf, out>>

MarkProcessedWithPending(files, res) ==
    files \cup {FileData[filesToProcess[i]].name : i \in 1..Len(filesToProcess)}

\* processedFiles[res.fileName] = true
MarkProcessed(files, res) == files \cup {res.fileName}

\* res := <-results and the bookkeeping of the collection loop
Collect ==
    /\ scanPc = "collect"
    /\ collected < Len(filesToProcess)
    /\ Len(resultsChan) > 0
    /\ LET res == Head(resultsChan) IN
          /\ resultsChan' = Tail(resultsChan)
          /\ collected' = collected + 1
          /\ received' = received \cup {res.fileName}
          /\ IF res.err # "nil"
             THEN UNCHANGED <<totalNewRecords, processedFiles>>
             ELSE /\ totalNewRecords' = IF res.recordsFound > 0
                                        THEN totalNewRecords + res.recordsFound
                                        ELSE totalNewRecords
                  /\ processedFiles' = MarkProcessed(processedFiles, res)
    /\ UNCHANGED <<fetchVars, toolVars>>
    /\ UNCHANGED <<run, lastRun, ledgerAtStart, saves, wread,
                   scanVariant, numWorkers, dirFiles, ledgerDisk, filesToProcess, scanPc,
                   nextJob, jobs, jobsClosed, mutexHolder, wpc, wfile, wmode, wpos, wfound,
                   werr, buf, out>>

CollectionOverAnytime == TRUE

\* for i := 0; i < len(filesToProcess); i++ has ended
CollectionOver == collected = Len(filesToProcess)

\* saveProcessedFiles once the loop has every result, first half:
\* os.Create(processedFilesLog) leaves the file empty
CreateLedger ==
    /\ scanPc = "collect"
    /\ CollectionOver
    /\ ledgerDisk' = {}
    /\ saves' = saves + 1
    /\ scanPc' = "encode"
    /\ UNCHANGED <<fetchVars, toolVars>>
    /\ UNCHANGED <<run, lastRun, ledgerAtStart, received, wread,
                   scanVariant, numWorkers, dirFiles, processedFiles, filesToProcess,
                   nextJob, jobs, jobsClosed, resultsChan, collected, totalNewRecords,
                   mutexHolder, wpc, wfile, wmode, wpos, wfound, werr, buf, out>>

\* saveProcessedFiles, second half: encoder.Encode(fileList) writes the list
EncodeLedger ==
    /\ scanPc = "encode"
    /\ ledgerDisk' = processedFiles
    /\ scanPc' = "done"
    /\ UNCHANGED <<fetchVars, toolVars>>
    /\ UNCHANGED <<run, lastRun, ledgerAtStart, received, saves, wread,
                   scanVariant, numWorkers, dirFiles, processedFiles, filesToProcess,
                   nextJob, jobs, jobsClosed, resultsChan, collected, totalNewRecords,
                   mutexHolder, wpc, wfile, wmode, wpos, wfound, werr, buf, out>>

\* saveProcessedFiles(processedFiles)
SaveLedger == CreateLedger \/ EncodeLedger

\* The process is gone and the program is started again on the same files:
\* what was on disk stays, what was in memory (the bufio.Writer's content
\* included) is lost.
Restart(ended) ==
    /\ run < MaxRuns
    /\ run' = run + 1
    /\ lastRun' = [ended |-> ended,
                   claimed |-> {filesToProcess[i] : i \in 1..Len(filesToProcess)},
                   ledgerRead |-> ledgerAtStart, saves |-> saves,
                   ledger |-> ledgerDisk, outLen |-> Len(out)]
    /\ UNCHANGED <<scanVariant, numWorkers, dirFiles, ledgerDisk, out>>
    /\ processedFiles' = {}
    /\ filesToProcess' = <<>>
    /\ scanPc' = "start"
    /\ nextJob' = 1
    /\ jobs' = <<>>
    /\ jobsClosed' = FALSE
    /\ resultsChan' = <<>>
    /\ collected' = 0
    /\ totalNewRecords' = 0
    /\ mutexHolder' = 0
    /\ wpc' = [w \in Workers |-> "unstarted"]
    /\ wfile' = [w \in Workers |-> NoFile]
    /\ wmode' = [w \in Workers |-> "none"]
    /\ wpos' = [w \in Workers |-> 0]
    /\ wfound' = [w \in Workers |-> 0]
    /\ werr' = [w \in Workers |-> "nil"]
    /\ wread' = [w \in Workers |-> 0]
    /\ buf' = <<>>
    /\ ledgerAtStart' = {}
    /\ received' = {}
    /\ saves' = 0
    /\ UNCHANGED <<fetchVars, toolVars>>

\* main has returned; the program is run again.
Rerun == scanPc = "done" /\ Restart("completed")

\* The process is terminated in the middle of a run; the program is run again.
Terminate == scanPc \in {"send", "collect", "encode"} /\ Restart("terminated")

ScanNext ==
    \/ StartRun
    \/ SendJob
    \/ CloseJobs
    \/ \E w \in Workers : Claim(w)
    \/ \E w \in Workers : WorkerExit(w)
    \/ \E w \in Workers : Lock(w)
    \/ \E w \in Workers : ScanBegin(w)
    \/ \E w \in Workers : ScanElement(w)
    \/ \E w \in Workers : Flush(w)
    \/ \E w \in Workers : Unlock(w)
    \/ \E w \in Workers : SendResult(w)
    \/ Collect
    \/ SaveLedger

\* The scanner at rest, for the runs of the downloader alone.
ScanIdle ==
    /\ scanVariant = "plain"
    /\ numWorkers = 1
    /\ dirFiles = {}
    /\ ledgerDisk = {}
    /\ processedFiles = {}
    /\ filesToProcess = <<>>
    /\ scanPc = "idle"
    /\ nextJob = 1
    /\ jobs = <<>>
    /\ jobsClosed = FALSE
    /\ resultsChan = <<>>
    /\ collected = 0
    /\ totalNewRecords = 0
    /\ mutexHolder = 0
    /\ wpc = [w \in Workers |-> "unstarted"]
    /\ wfile = [w \in Workers |-> NoFile]
    /\ wmode = [w \in Workers |-> "none"]
    /\ wpos = [w \in Workers |-> 0]
    /\ wfound = [w \in Workers |-> 0]
    /\ werr = [w \in Workers |-> "nil"]
    /\ buf = <<>>
    /\ out = <<>>
    /\ wread = [w \in Workers |-> 0]
    /\ run = 1
    /\ ledgerAtStart = {}
    /\ received = {}
    /\ saves = 0
    /\ lastRun = NoRun

\* The downloader at rest, for the runs of the scanner alone.
FetchIdle ==
    /\ variant = "retry"
    /\ urls = <<>>
    /\ concurrency = 1
    /\ existingFileMap = {}
    /\ disk = [n \in AllNames |-> "absent"]
    /\ semaphore = 0
    /\ wg = 0
    /\ next = 1
    /\ mainPc = "idle"
    /\ arg = <<>>
    /\ pc = <<>>
    /\ attempt = <<>>
    /\ result = <<>>
    /\ fd = <<>>
    /\ results = <<>>
    /\ slotWriters = <<>>
    /\ requests = <<>>
    /\ sleeps = <<>>
    /\ fileOps = <<>>
    /\ lastOutcome = <<>>
    /\ progressChan = 0
    /\ progressClosed = FALSE
    /\ completed = 0
    /\ progressPc = "idle"
    /\ faultBudget = 0
    /\ faults = 0

\* ============================================================ decompression
\* Errors gzipReader.Read returns: io.EOF at the end of the stream, and the
\* errors of a truncated or damaged stream.
ReadErrors == {"EOF", "unexpected EOF", "gzip: invalid checksum"}

\* The steps before the loop that can fail: os.Open, gzip.NewReader,
\* os.MkdirAll, os.Create.
SetupSteps == {"open", "gzip", "mkdir", "create"}

SetupError ==
    [s \in SetupSteps |->
        CASE s = "open" -> "failed to open file"
          [] s = "gzip" -> "failed to create gzip reader"
          [] s = "mkdir" -> "failed to create output directory"
          [] s = "create" -> "failed to create output file"]

\* What the successive Reads of an input return: a byte count and an error,
\* the error nil on every Read but the last.
ReadResults(errs) == [n : 0..MaxChunk, err : errs]

Streams(maxReads) ==
    UNION {{body \o <<last>> : body \in [1..k -> ReadResults({"nil"})],
                               last \in ReadResults(ReadErrors)} :
           k \in 0..(maxReads - 1)}

GzipInputs(maxReads) == [setup : SetupSteps \cup {"ok"}, reads : Streams(maxReads)]

NoOutput == <<"absent">>

\* The n decompressed bytes that follow the first `from`, each named by its
\* offset in the decompressed content.
Chunk(from, n) == [i \in 1..n |-> from + i]

DecompInit(maxReads) ==
    /\ gzipFile \in GzipInputs(maxReads)
    /\ dpc = "open"
    /\ dreads = 0
    /\ dn = 0
    /\ derr = "nil"
    /\ writeErr = "nil"
    /\ totalBytes = 0
    /\ outputFile = NoOutput
    /\ dret = "none"

DecompIdle ==
    /\ gzipFile = [setup |-> "ok", reads |-> <<[n |-> 0, err |-> "EOF"]>>]
    /\ dpc = "idle"
    /\ dreads = 0
    /\ dn = 0
    /\ derr = "nil"
    /\ writeErr = "nil"
    /\ totalBytes = 0
    /\ outputFile = NoOutput
    /\ dret = "none"


\* os.Open, gzip.NewReader, os.MkdirAll and os.Create: the first that fails
\* ends the call; os.Create leaves an empty output file.
OpenInput ==
    /\ dpc = "open"
    /\ IF gzipFile.setup = "ok"
       THEN /\ outputFile' = <<>>
            /\ dpc' = "read"
            /\ dret' = dret
       ELSE /\ dret' = SetupError[gzipFile.setup]
            /\ dpc' = "returned"
            /\ outputFile' = outputFile
    /\ UNCHANGED <<gzipFile, dreads, dn, derr, writeErr, totalBytes>>
    /\ UNCHANGED <<fetchVars, scanVars, callVars, sinkVars, driverVars>>

\* n, err := gzipReader.Read(buffer)
ReadChunk ==
    /\ dpc = "read"
    /\ dreads' = dreads + 1
    /\ dn' = gzipFile.reads[dreads'].n
    /\ derr' = gzipFile.reads[dreads'].err
    /\ dpc' = IF dn' > 0 THEN "write" ELSE "check"
    /\ UNCHANGED <<gzipFile, writeErr, totalBytes, outputFile, dret>>
    /\ UNCHANGED <<fetchVars, scanVars, callVars, sinkVars, driverVars>>

\* output.Write(buffer[:n]): all n bytes reach the file, or the write fails
\* after fewer and the call returns the error.
WriteChunk ==
    /\ dpc = "write"
    /\ \/ /\ outputFile' = outputFile \o Chunk(totalBytes, dn)
          /\ totalBytes' = totalBytes + dn
          /\ dpc' = "check"
          /\ UNCHANGED <<writeErr, dret>>
       \/ \E k \in 0..(dn - 1) :
            /\ outputFile' = outputFile \o Chunk(totalBytes, k)
            /\ writeErr' = "no space left on device"
            /\ dret' = "failed to write to output"
            /\ dpc' = "returned"
            /\ totalBytes' = totalBytes
    /\ UNCHANGED <<gzipFile, dreads, dn, derr>>
    /\ UNCHANGED <<fetchVars, scanVars, callVars, sinkVars, driverVars>>

SalvageableAlways == TRUE

\* if totalBytes > 0
Salvageable == totalBytes > 0

\* The end of a loop iteration: io.EOF ends the loop and the call succeeds;
\* another error ends the call, with nil when bytes were decompressed.
CheckErr ==
    /\ dpc = "check"
    /\ IF derr = "nil"
       THEN /\ dpc' = "read"
            /\ dret' = dret
       ELSE /\ dpc' = "returned"
            /\ dret' = IF derr = "EOF" \/ Salvageable THEN "nil" ELSE "error reading gzip"
    /\ UNCHANGED <<gzipFile, dreads, dn, derr, writeErr, totalBytes, outputFile>>
    /\ UNCHANGED <<fetchVars, scanVars, callVars, sinkVars, driverVars>>

DecompNext == OpenInput \/ ReadChunk \/ WriteChunk \/ CheckErr

\* ====================================================== the retry functions
\* Durations are counted in hundredths of a second, BackoffFactor is a whole
\* number, JitterFactor is counted in tenths and rand.Float64() in tenths.
defaultRetryConfig ==
    [MaxRetries |-> MaxRetries, InitialDelay |-> 1 * Second, MaxDelay |-> 30 * Second,
     BackoffFactor |-> 2, JitterFactor |-> 1]

\* The configurations the function is called with: the default one, and
\* others with no jitter, no growth, or an initial delay above the maximum.
RetryConfigs ==
    [MaxRetries : {MaxRetries}, InitialDelay : {1 * Second, 40 * Second},
     MaxDelay : {30 * Second}, BackoffFactor : {1, 2}, JitterFactor : {0, 1}]

\* Values of rand.Float64(), in tenths: the low end, the middle, the high end.
RandValues == {0, 5, 9}

\* math.Pow for whole numbers
RECURSIVE Pow(_, _)
Pow(x, y) == IF y = 0 THEN 1 ELSE x * Pow(x, y - 1)

\* calculateBackoffDelay: the value of delay is kept as a number of
\* ten-thousandths of a second until time.Duration(delay) truncates it.
calculateBackoffDelay(n, config, rand) ==
    IF n <= 0
    THEN config.InitialDelay
    ELSE LET delay == config.InitialDelay * Pow(config.BackoffFactor, n)
             jittered == delay * 100 + delay * config.JitterFactor * (rand * 2 - 10)
         IN  IF jittered > config.MaxDelay * 100 THEN config.MaxDelay ELSE jittered \div 100

\* Causes of a transport error besides the two above.
CauseReset == <<"read:", "connection", "reset", "by", "peer">>
CauseRefused == <<"dial", "tcp:", "connect:", "connection", "refused">>
CauseUnreachable == <<"dial", "tcp:", "connect:", "network", "is", "unreachable">>
CauseNoSuchHost == <<"dial", "tcp:", "lookup:", "no", "such", "host">>

Causes == {CauseTimeout, CauseTLS, CauseReset, CauseRefused, CauseUnreachable, CauseNoSuchHost}

NoCall ==
    [fn |-> "none", attempt |-> 0, config |-> defaultRetryConfig, rand |-> 0,
     statusCode |-> 0, url |-> "u1", cause |-> <<>>, err |-> NoError]

BackoffCalls ==
    {[NoCall EXCEPT !.fn = "calculateBackoffDelay", !.attempt = k, !.config = c, !.rand = r] :
        k \in 0..MaxAttempt, c \in RetryConfigs, r \in RandValues}

StatusCalls ==
    {[NoCall EXCEPT !.fn = "isRetryableHTTPStatus", !.statusCode = code] :
        code \in (-1)..MaxStatus}

\* The errors isRetryableError is given: nil, and the error of a GET of each
\* URL for each cause.
ErrorCalls ==
    {[NoCall EXCEPT !.fn = "isRetryableError"]}
    \cup {[NoCall EXCEPT !.fn = "isRetryableError", !.url = u, !.cause = c,
                         !.err = TransportErrorText(u, c)] :
            u \in {x \in URLIds : URLData[x].parseOK}, c \in Causes}

NoReturn == [done |-> FALSE, delay |-> 0, retry |-> FALSE]

CallInit ==
    /\ call \in BackoffCalls \cup StatusCalls \cup ErrorCalls
    /\ ret = NoReturn

CallIdle ==
    /\ call = NoCall
    /\ ret = NoReturn


ApplyBackoff ==
    /\ call.fn = "calculateBackoffDelay"
    /\ ~ret.done
    /\ ret' = [done |-> TRUE, retry |-> FALSE,
               delay |-> calculateBackoffDelay(call.attempt, call.config, call.rand)]
    /\ UNCHANGED <<call, fetchVars, scanVars, decompVars, sinkVars, driverVars>>

ApplyStatus ==
    /\ call.fn = "isRetryableHTTPStatus"
    /\ ~ret.done
    /\ ret' = [done |-> TRUE, delay |-> 0, retry |-> isRetryableHTTPStatus(call.statusCode)]
    /\ UNCHANGED <<call, fetchVars, scanVars, decompVars, sinkVars, driverVars>>

ApplyError ==
    /\ call.fn = "isRetryableError"
    /\ ~ret.done
    /\ ret' = [done |-> TRUE, delay |-> 0, retry |-> isRetryableError(call.err)]
    /\ UNCHANGED <<call, fetchVars, scanVars, decompVars, sinkVars, driverVars>>

CallNext == ApplyBackoff \/ ApplyStatus \/ ApplyError

\* ===================================================== the JSON-array sink
\* The records a match file holds and appendToFile is given: objects with a
\* billing code and a number, as json.Encoder wrote them.
SinkRecords ==
    {[code |-> "99283", num |-> "1"], [code |-> "99284", num |-> "9007199254740992"]}

RecordLists(maxLen) == UNION {[1..n -> SinkRecords] : n \in 0..maxLen}

\* The match file: absent, of size zero, a JSON array of records, or bytes
\* that do not decode into an array of objects.
ArrayFile(kind, records) == [kind |-> kind, records |-> records]

ArrayFiles(maxLen) ==
    {ArrayFile(k, <<>>) : k \in {"absent", "empty", "corrupt"}}
    \cup {ArrayFile("array", rs) : rs \in RecordLists(maxLen)}

\* A record after Decode into map[string]interface{} and Encode: its number
\* has gone through a float64.
Reencode(r) == [r EXCEPT !.num = Float64Text(r.num)]

\* allRecords := append(existingRecords, newRecords...), as Encode writes it
AllRecords(existing, new) ==
    [i \in 1..Len(existing) |-> Reencode(existing[i])]
    \o [i \in 1..Len(new) |-> Reencode(new[i])]

SinkInit(maxExisting, maxNew) ==
    /\ arrayFile \in ArrayFiles(maxExisting)
    /\ priorFile = arrayFile
    /\ newRecords \in RecordLists(maxNew)
    /\ existingRecords = <<>>
    /\ apc = "load"
    /\ aret = "none"

SinkIdle ==
    /\ arrayFile = ArrayFile("absent", <<>>)
    /\ priorFile = arrayFile
    /\ newRecords = <<>>
    /\ existingRecords = <<>>
    /\ apc = "idle"
    /\ aret = "none"

\* loadExistingData: no file and an empty file give no records, an array
\* gives its records, anything else the decoder's error; os.Open can also
\* fail for a file that exists.
LoadExisting ==
    /\ apc = "load"
    /\ \/ /\ arrayFile.kind \in {"absent", "empty", "array"}
          /\ existingRecords' = arrayFile.records
          /\ apc' = "create"
          /\ aret' = aret
       \/ /\ arrayFile.kind = "corrupt"
          /\ aret' = "decode error"
          /\ apc' = "returned"
          /\ existingRecords' = existingRecords
       \/ /\ arrayFile.kind # "absent"
          /\ aret' = "permission denied"
          /\ apc' = "returned"
          /\ existingRecords' = existingRecords
    /\ UNCHANGED <<arrayFile, priorFile, newRecords>>
    /\ UNCHANGED <<fetchVars, scanVars, decompVars, callVars, driverVars>>

\* os.Create(filename): the file is truncated, or the call fails and the
\* file stays as it is.
CreateOutput ==
    /\ apc = "create"
    /\ \/ /\ arrayFile' = ArrayFile("empty", <<>>)
          /\ apc' = "encode"
          /\ aret' = aret
       \/ /\ aret' = "permission denied"
          /\ apc' = "returned"
          /\ arrayFile' = arrayFile
    /\ UNCHANGED <<priorFile, newRecords, existingRecords>>
    /\ UNCHANGED <<fetchVars, scanVars, decompVars, callVars, driverVars>>

\* encoder.Encode(allRecords): the array is written, or the write fails and
\* leaves what it wrote of it.
EncodeAll ==
    /\ apc = "encode"
    /\ \/ /\ arrayFile' = ArrayFile("array", AllRecords(existingRecords, newRecords))
          /\ aret' = "nil"
       \/ /\ arrayFile' \in {ArrayFile("empty", <<>>), ArrayFile("corrupt", <<>>)}
          /\ aret' = "no space left on device"
    /\ apc' = "returned"
    /\ UNCHANGED <<priorFile, newRecords, existingRecords>>
    /\ UNCHANGED <<fetchVars, scanVars, decompVars, callVars, driverVars>>

SinkNext == LoadExisting \/ CreateOutput \/ EncodeAll

\* ================================================= the decompression driver
\* simpleDecompress succeeds when every Read up to io.EOF succeeds.
SimpleDecompress(f) ==
    f.input.setup = "ok" /\ f.input.reads[Len(f.input.reads)].err = "EOF"

RECURSIVE StreamBytes(_)
StreamBytes(reads) ==
    IF reads = <<>> THEN 0 ELSE Head(reads).n + StreamBytes(Tail(reads))

\* robustDecompress on the same input succeeds when the stream ends with
\* io.EOF or gave at least one byte.
RobustDecompress(f) ==
    f.input.setup = "ok"
    /\ (f.input.reads[Len(f.input.reads)].err = "EOF" \/ StreamBytes(f.input.reads) > 0)

\* isValidJSON(outputFile)
IsValidJSON(f) == f.valid

\* The inputs of the driver: a sound stream, a stream cut after some bytes, a
\* stream cut before any byte, and a file that is no gzip stream.
DriverInputs ==
    {[setup |-> "ok", reads |-> <<[n |-> MaxChunk, err |-> "EOF"]>>],
     [setup |-> "ok", reads |-> <<[n |-> MaxChunk, err |-> "unexpected EOF"]>>],
     [setup |-> "ok", reads |-> <<[n |-> 0, err |-> "unexpected EOF"]>>],
     [setup |-> "gzip", reads |-> <<[n |-> 0, err |-> "EOF"]>>]}

DriverFiles == [input : DriverInputs, valid : BOOLEAN]

DriverInit(maxFiles) ==
    /\ gzipFiles \in UNION {[1..n -> DriverFiles] : n \in 0..maxFiles}
    /\ di = 1
    /\ successCount = 0
    /\ errorCount = 0
    /\ partialCount = 0

DriverIdle ==
    /\ gzipFiles = <<>>
    /\ di = 1
    /\ successCount = 0
    /\ errorCount = 0
    /\ partialCount = 0

\* Both decompressions failed: errorCount++ and continue.
FileFailed ==
    /\ di <= Len(gzipFiles)
    /\ ~SimpleDecompress(gzipFiles[di])
    /\ ~RobustDecompress(gzipFiles[di])
    /\ errorCount' = errorCount + 1
    /\ di' = di + 1
    /\ UNCHANGED <<gzipFiles, successCount, partialCount>>
    /\ UNCHANGED <<fetchVars, scanVars, decompVars, callVars, sinkVars>>

\* One decompression succeeded: successCount++ or partialCount++, then the
\* validation of the output, which on failure takes one from successCount if
\* it is above zero and adds one to partialCount.
FileDecompressed ==
    LET f == gzipFiles[di]
        success == IF SimpleDecompress(f) THEN successCount + 1 ELSE successCount
        partial == IF SimpleDecompress(f) THEN partialCount ELSE partialCount + 1
    IN  /\ di <= Len(gzipFiles)
        /\ SimpleDecompress(f) \/ RobustDecompress(f)
        /\ IF IsValidJSON(f)
           THEN /\ successCount' = success
                /\ partialCount' = partial
           ELSE /\ successCount' = IF success > 0 THEN success - 1 ELSE success
                /\ partialCount' = partial + 1
        /\ di' = di + 1
        /\ UNCHANGED <<gzipFiles, errorCount>>
        /\ UNCHANGED <<fetchVars, scanVars, decompVars, callVars, sinkVars>>

DriverNext == FileFailed \/ FileDecompressed

ToolsIdle == DecompIdle /\ CallIdle /\ SinkIdle /\ DriverIdle

InitScan ==
    /\ ScanInit([v \in ScanVariants |-> BasicFiles(v)], MaxFiles, MaxWorkers)
    /\ FetchIdle
    /\ ToolsIdle

SpecScan == InitScan /\ [][ScanNext]_vars

\* The same run when the Go scheduler keeps running some goroutine that can
\* take a step.
SpecScanFair == SpecScan /\ WF_vars(ScanNext)

\* Runs of the scanner one after the other on the same directory, each run
\* ending by itself or by the termination of the process.
RunsNext == ScanNext \/ Rerun \/ Terminate

InitRuns ==
    /\ ScanInit([v \in ScanVariants |-> BasicFiles(v)], MaxRunFiles, MaxWorkers)
    /\ FetchIdle
    /\ ToolsIdle

SpecRuns == InitRuns /\ [][RunsNext]_vars

\* One worker on directories of up to MaxScanFiles files of every kind.
InitOneFile ==
    /\ ScanInit([v \in ScanVariants |-> AllFiles(v)], MaxScanFiles, 1)
    /\ FetchIdle
    /\ ToolsIdle

SpecOneFile == InitOneFile /\ [][ScanNext]_vars

\* The same with the scheduler's guarantee that a goroutine that can take a
\* step takes one.
SpecOneFileFair == SpecOneFile /\ WF_vars(ScanNext)

\* The downloader on lists of up to MaxTasks URLs, with up to MaxFaults
\* failed operations in the run.
Init == FetchInit(MaxTasks, MaxFaults) /\ ScanIdle /\ ToolsIdle

Next == FetchNext

Spec == Init /\ [][Next]_vars

\* The same run when the Go scheduler keeps running some goroutine that can
\* take a step.
SpecFair == Spec /\ WF_vars(Next)

\* The downloader on lists of up to MaxFaultyTasks URLs where every operation
\* of every attempt may fail.
InitAllFaults ==
    FetchInit(MaxFaultyTasks, MaxFaultyTasks * (MaxRetries + 1)) /\ ScanIdle /\ ToolsIdle

SpecAllFaults == InitAllFaults /\ [][FetchNext]_vars

\* The same downloader when the process can be terminated and run again.
FetchRunsNext == FetchNext \/ FetchTerminate

SpecFetchRuns == InitAllFaults /\ [][FetchRunsNext]_vars

\* robustDecompress on inputs of up to MaxReads reads of up to MaxChunk bytes.
InitRobust == FetchIdle /\ ScanIdle /\ DecompInit(MaxReads) /\ CallIdle /\ SinkIdle /\ DriverIdle

SpecRobust == InitRobust /\ [][DecompNext]_vars

\* One call of calculateBackoffDelay, isRetryableHTTPStatus or isRetryableError
\* on each input of the sets above.
InitCalls == FetchIdle /\ ScanIdle /\ DecompIdle /\ CallInit /\ SinkIdle /\ DriverIdle

SpecCalls == InitCalls /\ [][CallNext]_vars

\* The two sinks: runs of the scanner one after the other on the JSON-lines
\* output, or one call of appendToFile on a JSON-array file.
InitSinks ==
    \/ InitRuns
    \/ FetchIdle /\ ScanIdle /\ DecompIdle /\ CallIdle /\ DriverIdle
          /\ SinkInit(MaxExisting, MaxNew)

SinksNext == RunsNext \/ SinkNext

SpecSinks == InitSinks /\ [][SinksNext]_vars

\* The decompression driver on lists of up to MaxGzipFiles files.
InitDriver ==
    FetchIdle /\ ScanIdle /\ DecompIdle /\ CallIdle /\ SinkIdle /\ DriverInit(MaxGzipFiles)

SpecDriver == InitDriver /\ [][DriverNext]_vars

\* ================================================================ claims
\* A goroutine holds an admission slot: it has sent on the semaphore channel
\* and has not yet run the deferred receive.
InFlight(g) ==
    pc[g] \in {"call", "get", "backoff", "create", "copy", "store", "progress", "release"}

\* downloadFile has returned in goroutine g.
Returned(g) == pc[g] \in {"store", "progress", "release", "done"}

HasPrefix(s, prefix) ==
    Len(s) >= Len(prefix) /\ SubSeq(s, 1, Len(prefix)) = prefix

\* The error downloadFile reports for an attempt of url u that met outcome o.
AttemptError(u, o) ==
    IF o.kind = "err"
    THEN <<"HTTP", "request", "failed:">> \o TransportErrorText(u, o.cause)
    ELSE <<"HTTP", "status", StatusText(o.status)>>

FailedAttempt(o) == o.kind = "err" \/ (o.kind = "resp" /\ o.status # StatusOK)

RetryableFailure(u, o) ==
    \/ o.kind = "err" /\ isRetryableError(TransportErrorText(u, o.cause))
    \/ o.kind = "resp" /\ o.status # StatusOK /\ isRetryableHTTPStatus(o.status)

PermanentFailure(u, o) == FailedAttempt(o) /\ ~RetryableFailure(u, o)

\* C1: at every instant the number of goroutines that hold an admission slot
\* (inside downloadFile, its backoff sleeps included) is at most the ceiling.
C1_BoundedInFlight ==
    Cardinality({g \in Tasks : InFlight(g)}) <= concurrency

\* A goroutine waits for a slot while the ceiling is reached and a holder sleeps.
C1_Witness ==
    /\ Cardinality({g \in Tasks : InFlight(g)}) = concurrency
    /\ \E g \in Tasks : pc[g] = "acquire"
    /\ \E g \in Tasks : pc[g] = "backoff"

\* C2: no slot of results is assigned by another goroutine than the one started
\* for it or more than once, and when downloadFiles returns every slot i has
\* been assigned once, by the goroutine of urls[i], with URL = urls[i].
C2_OneResultPerTask ==
    \A i \in Tasks :
        /\ slotWriters[i] \in {<<>>, <<i>>}
        /\ slotWriters[i] = <<i>> => arg[i].url = urls[i] /\ results[i].URL = urls[i]
        /\ mainPc = "returned" => slotWriters[i] = <<i>>

\* downloadFiles has returned two results for two different URLs, one a
\* success and one a failure.
C2_Witness ==
    /\ mainPc = "returned"
    /\ Len(urls) = 2
    /\ urls[1] # urls[2]
    /\ results[1].Success # results[2].Success

\* C3: in the retrying downloader a request after the first is issued only
\* after a retryable failure with fewer than MaxRetries retries used, one
\* backoff sleep precedes each request after the first, and a task issues at
\* most MaxRetries + 1 requests.
C3_RetryOnlyWhileAllowed ==
    /\ [](variant = "retry" => \A g \in Tasks : requests[g] <= MaxRetries + 1)
    /\ [][variant = "retry" =>
            \A g \in Tasks :
                requests'[g] # requests[g] =>
                    /\ requests'[g] = requests[g] + 1
                    /\ sleeps[g] = requests[g]
                    /\ requests[g] >= 1 =>
                          /\ RetryableFailure(arg[g].url, lastOutcome[g])
                          /\ requests[g] - 1 < MaxRetries]_vars

\* A task has used every retry: MaxRetries + 1 requests, MaxRetries sleeps.
C3_Witness ==
    /\ variant = "retry"
    /\ \E g \in Tasks : requests[g] = MaxRetries + 1 /\ sleeps[g] = MaxRetries

\* C4: a task whose destination name is in the index built at the start of
\* the run returns Success = true and has issued no request and made no
\* file operation, in each of the three downloaders.
C4_ExistingFileShortCircuit ==
    \A g \in Tasks :
        (pc[g] # "unstarted" /\ URLData[arg[g].url].parseOK
           /\ DestName(variant, arg[g].url) \in existingFileMap)
        => /\ requests[g] = 0
           /\ fileOps[g] = 0
           /\ Returned(g) => result[g].Success /\ result[g].Error = NoError

\* The second downloader skipped a file present under its descriptive name.
C4_Witness ==
    /\ variant = "planinfo"
    /\ \E g \in Tasks :
          /\ pc[g] = "done"
          /\ arg[g].url = "u3"
          /\ DestName(variant, arg[g].url) \in existingFileMap
          /\ results[g].Success

WriteFailurePrefix == <<"failed", "to", "write", "file:">>
CreateFailurePrefix == <<"failed", "to", "create", "file:">>

\* C5: whenever downloadFile returns a failure caused by an error while writing
\* the body, in any of the downloaders, the destination file is gone from the
\* directory at that return.
C5_PartialFileRemoved ==
    [][\A g \in Tasks :
          (pc[g] = "copy" /\ Returned(g)' /\ HasPrefix(result'[g].Error, WriteFailurePrefix))
          => disk'[DestName(variant, arg[g].url)] = "absent"]_vars

\* C5, the retrying downloader alone: its failed copy leaves no file behind.
C5_RetryingRemovesPartialFile ==
    [][variant = "retry" =>
          \A g \in Tasks :
             (pc[g] = "copy" /\ Returned(g)' /\ HasPrefix(result'[g].Error, WriteFailurePrefix))
             => disk'[DestName(variant, arg[g].url)] = "absent"]_vars

\* C6: when every attempt of a task of the retrying downloader fails with a
\* retryable failure, the task ends right after request MaxRetries + 1, with
\* Success = false, the error of that last attempt and Retries = MaxRetries.
C6_ExhaustedReportsLastError ==
    \A g \in Tasks :
        (/\ variant = "retry"
         /\ requests[g] = MaxRetries + 1
         /\ RetryableFailure(arg[g].url, lastOutcome[g]))
        => /\ Returned(g)
           /\ ~result[g].Success
           /\ result[g].Error = AttemptError(arg[g].url, lastOutcome[g])
           /\ result[g].Retries = MaxRetries
           /\ sleeps[g] = MaxRetries

\* A task ran out of retries on a 503 after an earlier transport timeout:
\* the reported error is the status error.
C6_Witness ==
    /\ variant = "retry"
    /\ \E g \in Tasks :
          /\ pc[g] = "done"
          /\ arg[g].url = "u1"
          /\ requests[g] = MaxRetries + 1
          /\ lastOutcome[g] = Response(503)
          /\ results[g].Error = <<"HTTP", "status", "503">>
          /\ results[g].Retries = MaxRetries

\* C7: after an attempt that met a non-success, non-retryable status or a
\* non-retryable transport error the task has returned a failed result, and
\* it issues no further request and takes no further sleep.
C7_PermanentFailureReturnsAtOnce ==
    /\ [](\A g \in Tasks :
            PermanentFailure(arg[g].url, lastOutcome[g])
            => /\ Returned(g)
               /\ ~result[g].Success
               /\ result[g].Error = AttemptError(arg[g].url, lastOutcome[g]))
    /\ [][\A g \in Tasks :
            PermanentFailure(arg[g].url, lastOutcome[g])
            => requests'[g] = requests[g] /\ sleeps'[g] = sleeps[g]]_vars

\* A task of the retrying downloader met a 404 on its second attempt, with
\* retries to spare, and has ended.
C7_Witness ==
    /\ variant = "retry"
    /\ \E g \in Tasks :
          /\ pc[g] = "done"
          /\ requests[g] = 2
          /\ attempt[g] < MaxRetries
          /\ lastOutcome[g] = Response(404)
          /\ ~results[g].Success

LocalFailure(g) ==
    \/ HasPrefix(result[g].Error, CreateFailurePrefix)
    \/ HasPrefix(result[g].Error, WriteFailurePrefix)

\* C8: a task whose attempt failed to create or to write the destination file
\* has returned on that attempt with a failure, and issues no request and
\* takes no sleep afterwards, whatever the attempt number and the error text.
C8_LocalFailureNotRetried ==
    /\ [](\A g \in Tasks :
            LocalFailure(g) => Returned(g) /\ ~result[g].Success
                               /\ result[g].Retries = attempt[g])
    /\ [][\A g \in Tasks :
            LocalFailure(g) => requests'[g] = requests[g] /\ sleeps'[g] = sleeps[g]]_vars

\* The retrying downloader ended a first attempt on a write error whose text
\* the transport classifier would call retryable.
C8_Witness ==
    /\ variant = "retry"
    /\ \E g \in Tasks :
          /\ pc[g] = "done"
          /\ attempt[g] = 0
          /\ results[g].Error = WriteFailurePrefix \o <<"read:", "i/o", "timeout">>
          /\ isRetryableError(<<"read:", "i/o", "timeout">>)

\* C9: no two goroutines started for different URLs hold the same destination
\* path open for writing at the same time.
C9_DistinctDestinations ==
    \A g, h \in Tasks :
        (g # h /\ arg[g].url # arg[h].url /\ fd[g] # "none" /\ fd[h] # "none")
        => FilePath(variant, arg[g].url) # FilePath(variant, arg[h].url)

\* Everything handed to the sink so far, in the order it reaches the file.
SinkStream == out \o buf

\* The records of each file form one block of the stream.
Contiguous(stream) ==
    \A i, k \in 1..Len(stream) :
        (i < k /\ stream[i].file = stream[k].file)
        => \A j \in i..k : stream[j].file = stream[i].file

\* A worker is between writerMutex.Lock() and writerMutex.Unlock().
InCriticalSection(w) == wpc[w] \in {"begin", "scan", "flush", "unlock"}

\* C10: for any number of workers the stream of the shared sink is a
\* concatenation of per-file blocks; at most one worker is between acquiring
\* and releasing the writer lock, and every write to the sink is made by the
\* worker that holds it.
C10_PerFileBlocks ==
    /\ [](Contiguous(SinkStream))
    /\ [](Cardinality({w \in Workers : InCriticalSection(w)}) <= 1)
    /\ [][(out' # out \/ buf' # buf)
            => /\ mutexHolder \in Workers
               /\ InCriticalSection(mutexHolder)
               /\ \A w \in Workers : InCriticalSection(w) => w = mutexHolder]_vars

\* Two workers, two files with matches: one worker has written a record of its
\* file and has more to scan while the other waits for the lock, the records of
\* the file scanned before being in the stream already.
C10_Witness ==
    /\ numWorkers = 2
    /\ \E w1, w2 \in Workers :
          /\ w1 # w2
          /\ wpc[w1] = "scan"
          /\ wfound[w1] >= 1
          /\ wpos[w1] < Len(FileData[wfile[w1]].elems)
          /\ wpc[w2] = "lock"
          /\ \E i \in 1..Len(SinkStream) :
                SinkStream[i].file # FileData[wfile[w1]].name
                /\ SinkStream[i].file # FileData[wfile[w2]].name

\* The names of the files main listed for the run under way.
ClaimedNames == {FileData[filesToProcess[i]].name : i \in 1..Len(filesToProcess)}

\* C11: once a scan run has completed, every file whose scan was attempted in
\* the run is named in the ledger on disk, whether its scan ended in success
\* or in error.
C11_AttemptedFilesRecorded ==
    scanPc = "done" => ClaimedNames \subseteq ledgerDisk

\* C12: a run that follows a completed run on the same files claims no file,
\* appends no record to the output and leaves the ledger as it was.
C12_SecondRunIdle ==
    (lastRun.ended = "completed" /\ scanPc # "start")
    => /\ Len(filesToProcess) = 0
       /\ Len(out) = lastRun.outLen
       /\ buf = <<>>
       /\ ledgerDisk = lastRun.ledger

\* C13: the ledger file is replaced in one step: whatever step is taken, the
\* file holds afterwards the names it held before or the complete new set,
\* never an empty or partial list.
C13_LedgerReplacedAtomically ==
    [][ledgerDisk' = ledgerDisk \/ ledgerDisk' = processedFiles]_vars

C15_MarkedAfterResult ==
    /\ [](processedFiles \subseteq ledgerAtStart \cup received)
    /\ [](\A n \in ClaimedNames \ received : n \notin processedFiles)
    /\ [][run' = run => processedFiles \subseteq processedFiles']_vars
    /\ [][processedFiles' # processedFiles => wpc' = wpc \/ scanPc = "start"]_vars

\* One file is in the set after its result came in while another file is
\* being scanned and a third has not been claimed yet.
C15_Witness ==
    /\ Len(filesToProcess) = 3
    /\ received # {}
    /\ received \subseteq processedFiles
    /\ \E w \in Workers : wpc[w] = "scan"
    /\ Len(jobs) = 1

\* The scan of worker w has returned and its result is not sent yet.
ScanReturned(w) == wpc[w] \in {"flush", "unlock", "send"}

\* Worker w takes a step of its scan.
ScanStep(w) == wpc[w] \in {"begin", "scan"} /\ <<wpc[w], wpos[w]>>' # <<wpc[w], wpos[w]>>

\* The records handed to the sink by the step being taken.
Appended == SubSeq(out' \o buf', Len(out \o buf) + 1, Len(out' \o buf'))

\* C16: in array mode an element that fails to decode is skipped: the scan
\* of the file returns no error and has gone through every element of the
\* array, in the plain scanner and in the gzip scanner.
C16_ArrayDecodeErrorSkipped ==
    \A w \in Workers :
        (wmode[w] = "array" /\ ScanReturned(w))
        => /\ werr[w] = "nil"
           /\ wpos[w] = Len(FileData[wfile[w]].elems)

\* C17: in object mode a Decode that fails ends the scan of the file at once
\* with an error: nothing is written, no later object is decoded, and the
\* decoder never gets past an object that does not decode.
C17_ObjectDecodeErrorEndsScan ==
    /\ [][\A w \in Workers :
            LET elems == FileData[wfile[w]].elems IN
            (/\ wmode[w] = "object"
             /\ ScanStep(w)
             /\ wpos[w] < Len(elems)
             /\ Dec(elems[wpos[w] + 1]) # "ok")
            => /\ ScanReturned(w)'
               /\ werr'[w] # "nil"
               /\ wpos'[w] = wpos[w]
               /\ Appended = <<>>]_vars
    /\ [](\A w \in Workers :
            wmode[w] = "object" =>
                \A k \in 1..wpos[w] : Dec(FileData[wfile[w]].elems[k]) = "ok")

\* The gzip scanner has returned an error on the malformed second object of a
\* stream of three, after the match of the first; the plain scanner has
\* returned an error on a malformed root object.
C17_Witness ==
    \E w \in Workers :
        LET elems == FileData[wfile[w]].elems IN
        /\ wmode[w] = "object"
        /\ ScanReturned(w)
        /\ werr[w] # "nil"
        /\ \/ scanVariant = "gzip" /\ wpos[w] = 1 /\ wfound[w] = 1 /\ Len(elems) = 3
           \/ scanVariant = "plain" /\ wpos[w] = 0 /\ Len(elems) = 2

\* The first bytes of a file: its leading whitespace, then the first byte
\* that is none.
Bytes(f) == [k \in 1..f.ws |-> " "] \o (IF f.first = "" THEN <<>> ELSE <<f.first>>)

\* The file of worker w could be opened for reading as the scanner needs it.
Readable(w) == scanVariant = "gzip" => FileData[wfile[w]].gz

\* C18: a file whose first byte after the leading whitespace is neither '['
\* nor '{' gives an error with count 0 and nothing written; whatever the amount
\* of leading whitespace, the reader has consumed exactly that whitespace when
\* the mode is decided, so the next byte the decoder reads is the deciding one.
C18_OtherFirstByteIsError ==
    /\ [](\A w \in Workers :
            LET f == FileData[wfile[w]] IN
            ((wpc[w] = "scan" \/ ScanReturned(w)) /\ Readable(w))
            => /\ wread[w] = f.ws
               /\ f.first # "" => Bytes(f)[wread[w] + 1] = f.first
               /\ f.first \notin {"[", "{", ""} =>
                     ScanReturned(w) /\ werr[w] # "nil" /\ wfound[w] = 0)
    /\ [][\A w \in Workers :
            (/\ wpc[w] = "begin"
             /\ ScanStep(w)
             /\ Readable(w)
             /\ FileData[wfile[w]].first \notin {"[", "{", ""})
            => ScanReturned(w)' /\ Appended = <<>>]_vars

\* A scan has returned its error for a file that starts with two bytes of
\* whitespace and then an 'x'.
C18_Witness ==
    \E w \in Workers :
        /\ ScanReturned(w)
        /\ Readable(w)
        /\ FileData[wfile[w]].ws = 2
        /\ FileData[wfile[w]].first = "x"
        /\ werr[w] # "nil"

\* The records of the file called name that have been handed to the sink.
Written(name) == SelectSeq(out \o buf, LAMBDA r : r.file = name)

\* Element i of file f as the input has it.
InputRecord(f, i) ==
    [file |-> FileData[f].name, elem |-> i, path |-> <<>>,
     code |-> FileData[f].elems[i].code, num |-> FileData[f].elems[i].num]

\* The top-level elements of f whose billing_code is a string of the target
\* set, in input order.
ExpectedOfArray(f) ==
    SelectSeq([i \in 1..Len(FileData[f].elems) |-> InputRecord(f, i)],
              LAMBDA r : /\ FileData[f].elems[r.elem].strCode
                         /\ FileData[f].elems[r.elem].code \in targetCodes)

\* Every element of the array in f is an object.
ArrayOfObjects(f) == \A i \in 1..Len(FileData[f].elems) : FileData[f].elems[i].kind = "obj"

\* C19: after the array-mode scan of an array of objects, the records written
\* for the file are the elements whose billing_code is a string of the target
\* set, each once, as the input has them and in input order, and the count
\* returned is their number.
C19_ArrayMatchesWrittenUnmodified ==
    \A w \in Workers :
        (wmode[w] = "array" /\ ScanReturned(w) /\ ArrayOfObjects(wfile[w]))
        => /\ Written(FileData[wfile[w]].name) = ExpectedOfArray(wfile[w])
           /\ wfound[w] = Len(ExpectedOfArray(wfile[w]))

RECURSIVE Matching(_, _, _, _)

\* The records of the objects at or below v that carry a target code.
Matching(f, i, path, v) ==
    (IF v.kind = "obj" /\ IsMatch(v) THEN {Rec(f, i, path, v)} ELSE {})
    \cup UNION {Matching(f, i, Append(path, k), v.kids[k]) : k \in 1..Len(v.kids)}

\* C20: in object mode the step that decodes a top-level object emits that
\* object alone, once, when it carries a target code; otherwise it emits each
\* object below it that carries one, once; in the plain scanner and in the gzip
\* scanner alike.
C20_ObjectModeEmission ==
    [][\A w \in Workers :
          (wmode[w] = "object" /\ ScanStep(w) /\ wpos'[w] = wpos[w] + 1)
          => LET f == wfile[w]
                 i == wpos'[w]
                 e == FileData[f].elems[i]
             IN IF IsMatch(e)
                THEN Appended = <<Rec(f, i, <<>>, e)>>
                ELSE /\ {Appended[k] : k \in 1..Len(Appended)} = Matching(f, i, <<>>, e)
                     /\ Len(Appended) = Cardinality(Matching(f, i, <<>>, e))]_vars

\* Every top-level value of f is an object that decodes.
StreamOfObjects(f) == \A i \in 1..Len(FileData[f].elems) : Dec(FileData[f].elems[i]) = "ok"

\* C21: the scan of an input that starts with '{' and holds N objects one
\* after the other decodes all N before it returns, returns no error, and has
\* written a record for each of them that carries a target code.
C21_AllObjectsDecoded ==
    \A w \in Workers :
        (wmode[w] = "object" /\ ScanReturned(w) /\ StreamOfObjects(wfile[w]))
        => /\ werr[w] = "nil"
           /\ wpos[w] = Len(FileData[wfile[w]].elems)
           /\ \A i \in 1..Len(FileData[wfile[w]].elems) :
                 IsMatch(FileData[wfile[w]].elems[i])
                 => \E k \in 1..Len(Written(FileData[wfile[w]].name)) :
                        Written(FileData[wfile[w]].name)[k].elem = i


\* robustDecompress has returned.
DecompReturned == dpc = "returned"

\* The loop met a read error other than io.EOF and saw it (no write failed
\* before the error was looked at).
ReadErrorMet == DecompReturned /\ dreads > 0 /\ derr \notin {"nil", "EOF"} /\ writeErr = "nil"

\* The decompressed bytes every Read so far has delivered.
Delivered == Chunk(0, totalBytes)

\* C22: when robustDecompress meets a read error other than end-of-stream, it
\* returns nil and the output file holds the bytes decompressed so far if there
\* is at least one such byte, and returns an error if there is none; a failed
\* write to the output always makes it return an error.
C22_SalvageOnReadError ==
    /\ ReadErrorMet =>
          /\ totalBytes > 0 => (dret = "nil" /\ outputFile = Delivered)
          /\ totalBytes = 0 => dret = "error reading gzip"
    /\ (DecompReturned /\ writeErr # "nil") => dret = "failed to write to output"

C22_Witness ==
    /\ ReadErrorMet
    /\ dreads > 1
    /\ totalBytes > 0
    /\ dret = "nil"
    /\ outputFile = Delivered


\* The safe part of C23: no file is handed to two workers, no scan is begun
\* again once it has returned, and main never holds more results than files.
C23_AtMostOneResultPerFile ==
    /\ \A v, w \in Workers : (v # w /\ wfile[v] # NoFile) => wfile[v] # wfile[w]
    /\ collected + Len(resultsChan) <= Len(filesToProcess)
    /\ scanPc = "done" => collected = Len(filesToProcess)

\* C23: in every scan run each file of the list is claimed, scanned once and
\* reported, whatever happens on the other files: the run comes to the point
\* where main has received as many results as there are files.
C23_EveryFileReported == <>(scanPc = "done" /\ collected = Len(filesToProcess))

\* The same for the gzip scanner alone.
C23_EveryGzipFileReported ==
    (scanVariant = "gzip") => <>(scanPc = "done" /\ collected = Len(filesToProcess))


\* The events of worker w on its file, as the step being taken.
Claimed(w) == wfile[w] = NoFile /\ wfile'[w] # NoFile
Locked(w) == mutexHolder # w /\ mutexHolder' = w
Released(w) == mutexHolder = w /\ mutexHolder' # w
Sent(w) == wfile[w] # NoFile /\ wfile'[w] = NoFile
SinkWritten == out \o buf # out' \o buf'

\* C24: a worker claims a file, then takes the output lock, then scans and
\* writes, then the sink is flushed, then it releases the lock, then it sends
\* the result: the lock is taken on a claimed file whose scan has not begun,
\* scanning and writing happen under the lock, the lock is released only once
\* the scan has returned, with or without an error, and nothing is left in the
\* sink's buffer, and the result is sent after the release.
C24_WorkerEventOrder ==
    [][\A w \in Workers :
          /\ Claimed(w) => (mutexHolder # w /\ mutexHolder' # w)
          /\ Locked(w) => (wfile[w] # NoFile /\ wmode[w] = "none" /\ ~ScanReturned(w))
          /\ ScanStep(w) => mutexHolder = w
          /\ SinkWritten => mutexHolder # 0
          /\ Released(w) => (ScanReturned(w) /\ buf = <<>> /\ wfile[w] # NoFile)
          /\ Sent(w) => (ScanReturned(w) /\ mutexHolder # w
                         /\ Len(resultsChan') = Len(resultsChan) + 1)]_vars

C24_Witness ==
    \E w \in Workers :
        /\ scanVariant = "gzip"
        /\ wpc[w] = "send"
        /\ werr[w] # "nil"
        /\ wfound[w] > 0
        /\ mutexHolder # w
        /\ buf = <<>>
        /\ \E k \in 1..Len(out) : out[k].file = FileData[wfile[w]].name


\* The step being taken is one of the progress goroutine.
ProgressStep == completed' # completed \/ progressPc' # progressPc

\* The goroutines that have sent their progress update.
ProgressSenders == {g \in Tasks : pc[g] \in {"release", "done"}}

\* C25: progress reporting never blocks a download task and never changes
\* its outcome: the progress channel has room for one update per task, so a
\* task about to send always finds room; each task sends one update, after its
\* result is stored; and a step of the progress goroutine changes nothing of
\* the tasks, their results or the directory.
C25_ProgressAdvisory ==
    /\ [](ProgressCapacity = total)
    /\ [](\A g \in Tasks : pc[g] = "progress" => progressChan < ProgressCapacity)
    /\ [](~progressClosed => progressChan + completed = Cardinality(ProgressSenders))
    /\ [](\A g \in ProgressSenders : Len(slotWriters[arg[g].index]) > 0)
    /\ [][ProgressStep => UNCHANGED <<results, result, pc, attempt, disk, fd, requests,
                                      fileOps, semaphore, wg, mainPc>>]_vars

\* Every result is in and the progress goroutine has not taken one update.
C25_Witness ==
    /\ mainPc = "returned"
    /\ total = MaxTasks
    /\ completed = 0
    /\ progressPc = "run"
    /\ progressChan = total
    /\ \A i \in Tasks : results[i].URL # ""

\* Every URL of the list has a destination file and the download directory
\* holds it.
AllPresent ==
    \A i \in 1..Len(urls) :
        URLData[urls[i]].parseOK /\ disk[DestName(variant, urls[i])] # "absent"

\* C26: when the download directory holds the destination file of every URL
\* of the list at the start of the fetch phase, the run issues no HTTP request,
\* creates, writes and removes no file, and every result has Success = true.
C26_NothingFetchedWhenAllPresent ==
    AllPresent =>
        [](/\ \A g \in Tasks : requests[g] = 0 /\ fileOps[g] = 0 /\ sleeps[g] = 0
           /\ AllPresent
           /\ mainPc = "returned" =>
                 \A i \in Tasks : /\ results[i].Success
                                  /\ results[i].Error = NoError
                                  /\ results[i].URL = urls[i])

C26_Witness ==
    /\ AllPresent
    /\ \A g \in Tasks : requests[g] = 0 /\ fileOps[g] = 0
    /\ mainPc = "returned"
    /\ Len(urls) = MaxTasks
    /\ \A i, j \in Tasks : i # j => DestName(variant, urls[i]) # DestName(variant, urls[j])
    /\ \A i \in Tasks : results[i].Success


\* A call of calculateBackoffDelay has returned.
BackoffReturned == call.fn = "calculateBackoffDelay" /\ ret.done

\* C27: for every attempt number k >= 0 and every RetryConfig the duration
\* calculateBackoffDelay returns is at most MaxDelay.
C27_DelayAtMostMaxDelay == BackoffReturned => ret.delay <= call.config.MaxDelay

\* C27 for the calls with k > 0 alone.
C27_LaterDelaysAtMostMaxDelay ==
    (BackoffReturned /\ call.attempt > 0) => ret.delay <= call.config.MaxDelay

\* The call adds no jitter: JitterFactor is zero.
NoJitter == call.config.JitterFactor = 0

\* C28: for a fixed RetryConfig and no jitter, the delay of attempt k is at
\* most the delay of attempt k + 1, and the delay of attempt 0 is InitialDelay.
C28_DelayNonDecreasing ==
    (BackoffReturned /\ NoJitter) =>
        /\ ret.delay <= calculateBackoffDelay(call.attempt + 1, call.config, call.rand)
        /\ call.attempt = 0 => ret.delay = call.config.InitialDelay

\* C28 for the default configuration, jitter apart.
C28_DefaultDelayNonDecreasing ==
    (BackoffReturned /\ NoJitter
       /\ call.config = [defaultRetryConfig EXCEPT !.JitterFactor = 0]) =>
        ret.delay <= calculateBackoffDelay(call.attempt + 1, call.config, call.rand)

\* C29: isRetryableHTTPStatus returns true for 429, 500, 502, 503 and 504 and
\* false for every other integer.
C29_RetryableStatusCodes ==
    (call.fn = "isRetryableHTTPStatus" /\ ret.done) =>
        (ret.retry <=> call.statusCode \in {429, 500, 502, 503, 504})

C29_Witness ==
    /\ call.fn = "isRetryableHTTPStatus"
    /\ ret.done
    /\ call.statusCode = 504
    /\ ret.retry

\* The causes that belong to the transient categories: timeout, connection
\* reset, connection refused, unreachable network.
TransientCauses == {CauseTimeout, CauseReset, CauseRefused, CauseUnreachable}

\* C30: isRetryableError returns true only for an error whose cause is in
\* one of the transient categories, whatever words the rest of its text holds.
C30_RetryableOnlyByCategory ==
    (call.fn = "isRetryableError" /\ ret.done /\ ret.retry) => call.cause \in TransientCauses


\* Sequence s is the beginning of sequence t.
IsPrefix(s, t) == Len(s) <= Len(t) /\ SubSeq(t, 1, Len(s)) = s

Blank(f) == FileData[f].first = "" /\ FileData[f].elems = <<>>

\* The blank files of the run's list.
BlankNames == {FileData[filesToProcess[i]].name :
                  i \in {j \in 1..Len(filesToProcess) : Blank(filesToProcess[j])}}

\* C32: the scan of a file that is empty or holds only whitespace returns
\* 0 matches and no error and writes nothing, and the file is recorded as
\* processed, in the plain scanner and in the gzip scanner alike.
C32_BlankFileIsNoError ==
    /\ \A w \in Workers :
          (ScanReturned(w) /\ Blank(wfile[w])) =>
              /\ werr[w] = "nil"
              /\ wfound[w] = 0
              /\ out \o buf = <<>>
    /\ scanPc = "done" => BlankNames \subseteq ledgerDisk

\* The same for the plain scanner alone.
C32_PlainBlankFileIsNoError == (scanVariant = "plain") => C32_BlankFileIsNoError


\* C33: in every DownloadResult the retrying downloadFile returns, Success is
\* true exactly when Error is nil.
C33_SuccessIffNoError ==
    \A g \in Tasks :
        (variant = "retry" /\ Returned(g)) =>
            (result[g].Success <=> result[g].Error = NoError)

\* C33 for the tasks that made a single attempt.
C33_FirstAttemptSuccessIffNoError ==
    \A g \in Tasks :
        (variant = "retry" /\ Returned(g) /\ result[g].Retries = 0) =>
            (result[g].Success <=> result[g].Error = NoError)


\* C34: over any sequence of scan runs, terminated runs and runs with scan
\* errors included, the matched records of a source file are appended to the
\* output at most once: no record of a file's element is in the output twice.
C34_RecordsAppendedOnce ==
    \A i, j \in 1..Len(out) : i # j => out[i] # out[j]


\* C35: every file name the pre-check of a run reports as present is the
\* name of a completely transferred file, also when an earlier run was
\* terminated while a transfer was in progress.
C35_PresentMeansComplete ==
    \A n \in existingFileMap : disk[n] = "full"

\* C35 for the retrying downloader alone.
C35_RetryPresentMeansComplete == (variant = "retry") => C35_PresentMeansComplete


\* The part of C36 that is safety: the results channel never holds more
\* results than the run has files, so no send of a result ever blocks.
C36_NoSendBlocks == Len(resultsChan) <= Len(filesToProcess)

\* C36: every scan run terminates: it comes to the point where main has left
\* the collection loop with every result and the writer lock is free, and,
\* when the run had a file to scan, every worker has left its loop over the
\* jobs channel.
C36_ScanRunTerminates ==
    <>(/\ scanPc = "done"
       /\ collected = Len(filesToProcess)
       /\ mutexHolder = 0
       /\ (Len(filesToProcess) >= 1 => \A w \in Workers : wpc[w] = "exit"))

\* C36 for the gzip scanner alone.
C36_GzipScanRunTerminates == (scanVariant = "gzip") => C36_ScanRunTerminates


\* The worker is in the loop over the elements of a JSON array.
InArrayLoop(w) == w \in Workers /\ wpc[w] = "scan" /\ wmode[w] = "array"

\* The part of C37 that holds: the array loop never moves backwards in its
\* input, in either scanner.
C37_LoopNeverGoesBack ==
    [][\A w \in Workers : (InArrayLoop(w) /\ wpc'[w] = "scan") => wpos'[w] >= wpos[w]]_vars

\* C37: the plain scanner's processFileAndWriteMatches, once in its loop over
\* the elements of an array, leaves the loop, whatever the elements are.
C37_ArrayLoopTerminates ==
    \A w \in 1..MaxWorkers :
        (scanVariant = "plain" /\ InArrayLoop(w)) ~> ~InArrayLoop(w)

\* The same for the gzip scanner's processArray.
C37_GzipArrayLoopTerminates ==
    \A w \in 1..MaxWorkers :
        (scanVariant = "gzip" /\ InArrayLoop(w)) ~> ~InArrayLoop(w)


\* The number of records the output file has gained since the run began.
AppendedInRun == Len(out) - lastRun.outLen

\* C38: when a scan run has ended, the total of new records main reports is
\* the number of records the run appended to the output file.
C38_TotalIsRecordsAppended ==
    (scanPc = "done") => totalNewRecords = AppendedInRun

\* What holds of the total: it never counts a record that was not appended.
C38_TotalAtMostRecordsAppended ==
    (scanPc = "done") => totalNewRecords <= AppendedInRun


\* The driver's loop over the gzip files has ended.
DriverDone == di > Len(gzipFiles)

\* C39: after the loop the three counters of the summary add up to the number
\* of files.
C39_CountersAddUp ==
    DriverDone => successCount + partialCount + errorCount = Len(gzipFiles)

\* What holds of the counters: none is negative, the failed files are counted
\* once each, and the three together count every file at least once.
C39_CountersCoverEveryFile ==
    /\ successCount >= 0 /\ partialCount >= 0
    /\ errorCount =
         Cardinality({i \in 1..(di - 1) : ~SimpleDecompress(gzipFiles[i])
                                            /\ ~RobustDecompress(gzipFiles[i])})
    /\ successCount + partialCount + errorCount >= di - 1


====
